---------------------------- MODULE Spec2Model ----------------------------
(***************************************************************************)
(* Model of the vibration analysis backend (backend/app).                  *)
(*                                                                         *)
(*   services/fft_analysis.py   find_peak_in_band, detect_harmonics,       *)
(*                              detect_fixed_frequencies,                  *)
(*                              get_iso_severity_zone,                     *)
(*                              diagnose_bearing_fault,                    *)
(*                              perform_complete_analysis                  *)
(*   routers/machines.py        get_fft_analysis (the three-axis           *)
(*                              aggregator behind /machines/fft-analysis)  *)
(*   services/report_service.py prepare_report_data (the report's          *)
(*                              aggregator)                                *)
(*                                                                         *)
(* Representation.                                                         *)
(*   - Amplitudes and velocity RMS values are integers in units of         *)
(*     0.01 mm/s (AmpPerMm units per mm/s), so every ISO threshold is an   *)
(*     exact integer.  A square root is rounded UP to the unit, which      *)
(*     keeps every comparison "rms <= threshold" exact.                    *)
(*   - Spectrum frequencies are integers in Hz.  A band centre is kept in  *)
(*     1/60 Hz (n * rpm for the n-th harmonic, 60 * f for a fixed          *)
(*     frequency f), so that rpm / 60 needs no division; the 5% band test  *)
(*     is cross-multiplied.                                                *)
(*   - Python's None is the empty tuple; an optional number x is None or   *)
(*     the one-element tuple <<x>>.                                        *)
(*   - The numerical front end of velocity_convert (integration, filter,  *)
(*     window, FFT, block averaging) is not computed: a raw waveform is    *)
(*     identified with the averaged velocity spectrum it produces, given   *)
(*     as a finite set of <<frequency Hz, amplitude>> lines; every other   *)
(*     bin of the spectrum has amplitude 0.                                *)
(***************************************************************************)
EXTENDS Integers, Sequences, FiniteSets, TLC

None == <<>>

Some(x) == <<x>>

Val(opt) == opt[1]

\* Amplitude units per mm/s.
AmpPerMm == 100

\* Spacing in Hz of the bins of a modelled spectrum.
BinHz == 25

--------------------------------------------------------------------------
(* Plain helpers over sequences.                                           *)

Max2(a, b) == IF a >= b THEN a ELSE b

Min2(a, b) == IF a <= b THEN a ELSE b

Range(s) == {s[i] : i \in DOMAIN s}

\* Least r in lo..hi with r * r >= s, where hi * hi >= s (bisection).
RECURSIVE SqrtBetween(_, _, _)
SqrtBetween(lo, hi, s) ==
    IF lo >= hi THEN hi
    ELSE LET mid == (lo + hi) \div 2
         IN  IF mid * mid >= s THEN SqrtBetween(lo, mid, s)
             ELSE SqrtBetween(mid + 1, hi, s)

\* Least r with r * r >= s: the square root of s rounded up to the unit
\* (46340 is the largest integer whose square fits TLC's 32-bit integers).
SqrtUp(s) == SqrtBetween(0, Min2(s, 46340), s)

--------------------------------------------------------------------------
(* fft_analysis.py: ISO 10816-3 tables.                                    *)

\* The value 99999 mm/s that stands for "no upper limit" in zone D.
NoLimit == 99999 * AmpPerMm

ISO_THRESHOLDS ==
    [ I   |-> [A |-> 71,  B |-> 180, C |-> 450,  D |-> NoLimit],
      II  |-> [A |-> 112, B |-> 280, C |-> 710,  D |-> NoLimit],
      III |-> [A |-> 180, B |-> 450, C |-> 1120, D |-> NoLimit],
      IV  |-> [A |-> 280, B |-> 710, C |-> 1800, D |-> NoLimit] ]

ZONE_LABELS ==
    [A |-> "Normal", B |-> "Satisfactory", C |-> "Alert", D |-> "Unacceptable"]

\* severity_order.index(zone) of the aggregators, as a position 0..3.
severity_order == <<"A", "B", "C", "D">>

SeverityIndex(zone) == (CHOOSE i \in DOMAIN severity_order : severity_order[i] = zone) - 1


--------------------------------------------------------------------------
(* fft_analysis.py: velocity_convert, seen from its output.                *)

\* Amplitude of the averaged velocity spectrum of waveform sig at f Hz.
SpectrumAmplitude(sig, f) ==
    IF \E l \in sig : l[1] = f THEN (CHOOSE l \in sig : l[1] = f)[2] ELSE 0

\* The "FFT" entry of velocity_convert's result: the points
\* (frequency, amplitude) of the bins 0, BinHz, 2 BinHz, ... up to SR / 2
\* that lie strictly below fmax.  fmax60 is fmax in 1/60 Hz.
velocity_convert(sig, SR, fmax60) ==
    LET nyquist   == SR \div 2
        below(i)  == i * BinHz <= nyquist /\ i * BinHz * 60 < fmax60
        last      == CHOOSE i \in 0..(nyquist \div BinHz) :
                         /\ below(i)
                         /\ ~ below(i + 1)
    IN  [i \in 1..(last + 1) |->
            [frequency |-> (i - 1) * BinHz,
             amplitude |-> SpectrumAmplitude(sig, (i - 1) * BinHz)]]

--------------------------------------------------------------------------
(* fft_analysis.py: velocity_convert, the blocks it averages.              *)

\* A variant of overlappingPercentage whose range includes its ends.
overlappingPercentageInclusive(n) == IF 40000 <= n /\ n <= 50000 THEN 60 ELSE 80

\* n is len(rawData).
overlappingPercentage(n) == IF 40000 < n /\ n < 50000 THEN 60 ELSE 80

\* int(20000 * (highResolution / 2)) for a resolution above 1, else 20000;
\* then min(blockSize, len(rawData)).
blockSize(highResolution, n) ==
    Min2(IF highResolution > 1 THEN (20000 * highResolution) \div 2 ELSE 20000, n)

\* int(i * (1 - overlap / 100) * block_size).  1 - 80 / 100 is the double
\* just below 0.2, so a product that is a whole number in exact
\* arithmetic may come out one below it: slack (0 or 1) is what is lost.
BlockStart(i, overlap, block_size, slack) ==
    (i * (100 - overlap) * block_size) \div 100 - slack

\* Whether the double product of BlockStart can fall below the exact one.
MayRoundDown(i, overlap, block_size) ==
    /\ overlap = 80
    /\ i > 0
    /\ (i * (100 - overlap) * block_size) % 100 = 0
    /\ block_size > 0

num_blocks == 4

\* The loop over the blocks from block i on (i counted from 0): the
\* [start, end] of each block appended to velocity_FFT_Data_list, up to
\* the first block that ends beyond the data.  starts[i + 1] is the start
\* of block i.
RECURSIVE BlocksFrom(_, _, _, _)
BlocksFrom(i, starts, block_size, n) ==
    IF i >= num_blocks THEN <<>>
    ELSE IF starts[i + 1] + block_size > n THEN <<>>
    ELSE << [start |-> starts[i + 1], end |-> starts[i + 1] + block_size] >>
         \o BlocksFrom(i + 1, starts, block_size, n)

\* What velocity_convert averages for n samples: the blocks, and whether
\* it fell back to the single block final_velocity_Timeseries[:blockSize].
velocity_blocks(n, highResolution, slack) ==
    LET overlap    == overlappingPercentage(n)
        block_size == blockSize(highResolution, n)
        starts     == [k \in 1..num_blocks |->
                          BlockStart(k - 1, overlap, block_size, slack[k])]
        blocks     == BlocksFrom(0, starts, block_size, n)
    IN  [overlappingPercentage |-> overlap,
         blockSize             |-> block_size,
         starts                |-> starts,
         blocks                |-> blocks,
         fallback              |-> blocks = <<>>]

--------------------------------------------------------------------------
(* fft_analysis.py: HarmonicAnalyzer.                                      *)

\* A variant whose band is open: < and > instead of <= and >=.
InBandOpen(f, center60) ==
    /\ f * 60 * 100 > center60 * 95
    /\ f * 60 * 100 < center60 * 105

\* center60 is the centre frequency in 1/60 Hz; the tolerance is the
\* default 0.05, so the band is [0.95 center, 1.05 center].
InBand(f, center60) ==
    /\ f * 60 * 100 >= center60 * 95
    /\ f * 60 * 100 <= center60 * 105

\* np.argmax over the masked amplitudes: the first index of the band whose
\* amplitude is the band's maximum.
find_peak_in_band(spectrum, center60) ==
    IF center60 <= 0 THEN None
    ELSE LET mask == {i \in DOMAIN spectrum : InBand(spectrum[i].frequency, center60)}
         IN  IF mask = {} THEN None
             ELSE LET peak_idx ==
                          CHOOSE i \in mask :
                              /\ \A j \in mask : spectrum[j].amplitude <= spectrum[i].amplitude
                              /\ \A j \in mask :
                                    spectrum[j].amplitude = spectrum[i].amplitude => i <= j
                  IN  [frequency       |-> spectrum[peak_idx].frequency,
                       amplitude       |-> spectrum[peak_idx].amplitude,
                       targetFrequency |-> center60]

\* The default number of harmonics searched.
num_harmonics == 10

\* reference_amplitude: the 1x peak's amplitude, or 0.1 mm/s without one.
ReferenceAmplitude(spectrum, rpm) ==
    LET peak_1x == find_peak_in_band(spectrum, rpm)
    IN  IF peak_1x # None THEN peak_1x.amplitude ELSE AmpPerMm \div 10

\* The loop of detect_harmonics from order n on; it breaks at the first
\* order whose target lies above the last frequency of the spectrum.
RECURSIVE HarmonicsFrom(_, _, _, _)
HarmonicsFrom(n, spectrum, rpm, reference_amplitude) ==
    IF n > num_harmonics THEN <<>>
    ELSE IF n * rpm > spectrum[Len(spectrum)].frequency * 60 THEN <<>>
    ELSE LET peak == find_peak_in_band(spectrum, n * rpm)
             rest == HarmonicsFrom(n + 1, spectrum, rpm, reference_amplitude)
         IN  IF peak = None THEN rest
             ELSE << [harmonic          |-> n,
                      targetFrequency   |-> n * rpm,
                      detectedFrequency |-> peak.frequency,
                      amplitude         |-> peak.amplitude,
                      \* amplitude >= reference_amplitude * 0.1
                      isSignificant     |-> peak.amplitude * 10 >= reference_amplitude] >>
                  \o rest

\* running_freq = rpm / 60.
detect_harmonics(spectrum, rpm) ==
    IF rpm <= 0 THEN <<>>
    ELSE HarmonicsFrom(1, spectrum, rpm, ReferenceAmplitude(spectrum, rpm))

\* The default catalogue of electrical frequencies, in Hz.
target_freqs == <<25, 50, 75, 100, 125>>

RECURSIVE FixedFrom(_, _)
FixedFrom(k, spectrum) ==
    IF k > Len(target_freqs) THEN <<>>
    ELSE LET target == target_freqs[k]
             rest   == FixedFrom(k + 1, spectrum)
         IN  IF target > spectrum[Len(spectrum)].frequency THEN rest
             ELSE LET peak == find_peak_in_band(spectrum, target * 60)
                  IN  IF peak = None THEN rest
                      ELSE << [targetFrequency   |-> target,
                               detectedFrequency |-> peak.frequency,
                               amplitude         |-> peak.amplitude] >> \o rest

detect_fixed_frequencies(spectrum) == FixedFrom(1, spectrum)

--------------------------------------------------------------------------
(* fft_analysis.py: SeverityClassifier.                                    *)

\* A variant that compares with < instead of <=: a value equal to a
\* threshold falls into the zone above it.
get_iso_severity_zone_strict(velocity_rms, machine_class) ==
    LET class      == IF machine_class \in DOMAIN ISO_THRESHOLDS
                          THEN machine_class ELSE "II"
        thresholds == ISO_THRESHOLDS[class]
        zone       == IF velocity_rms < thresholds.A THEN "A"
                      ELSE IF velocity_rms < thresholds.B THEN "B"
                      ELSE IF velocity_rms < thresholds.C THEN "C"
                      ELSE "D"
    IN  [zone         |-> zone,
         label        |-> ZONE_LABELS[zone],
         velocityRMS  |-> velocity_rms,
         machineClass |-> class,
         thresholds   |-> thresholds]

get_iso_severity_zone(velocity_rms, machine_class) ==
    LET class      == IF machine_class \in DOMAIN ISO_THRESHOLDS
                          THEN machine_class ELSE "II"
        thresholds == ISO_THRESHOLDS[class]
        zone       == IF velocity_rms <= thresholds.A THEN "A"
                      ELSE IF velocity_rms <= thresholds.B THEN "B"
                      ELSE IF velocity_rms <= thresholds.C THEN "C"
                      ELSE "D"
    IN  [zone         |-> zone,
         label        |-> ZONE_LABELS[zone],
         velocityRMS  |-> velocity_rms,
         machineClass |-> class,
         thresholds   |-> thresholds]

--------------------------------------------------------------------------
(* fft_analysis.py: diagnose_bearing_fault, the diagnosis the pipeline     *)
(* uses.  It is called without the axial / horizontal amplitudes, so the   *)
(* axial branch of the Misalignment rule never runs.                       *)

\* The two evidence strings that are formatted with a count.
EvMultipleHarmonics(harmonic_count) ==
    CASE harmonic_count = 4  -> "Multiple harmonics detected (4x)"
      [] harmonic_count = 5  -> "Multiple harmonics detected (5x)"
      [] harmonic_count = 6  -> "Multiple harmonics detected (6x)"
      [] harmonic_count = 7  -> "Multiple harmonics detected (7x)"
      [] harmonic_count = 8  -> "Multiple harmonics detected (8x)"
      [] harmonic_count = 9  -> "Multiple harmonics detected (9x)"
      [] harmonic_count = 10 -> "Multiple harmonics detected (10x)"

EvElectrical(count) ==
    CASE count = 2 -> "Peaks at electrical frequencies (2 detected)"
      [] count = 3 -> "Peaks at electrical frequencies (3 detected)"
      [] count = 4 -> "Peaks at electrical frequencies (4 detected)"
      [] count = 5 -> "Peaks at electrical frequencies (5 detected)"

\* The keys of fault_scores in insertion order.
FaultOrder ==
    <<"Unbalance", "Misalignment", "Mechanical Looseness", "Electrical Issues", "Normal">>

recommendations ==
    [f \in Range(FaultOrder) |->
        CASE f = "Normal"               -> "Continue regular monitoring"
          [] f = "Unbalance"            -> "Schedule balancing service"
          [] f = "Misalignment"         -> "Check and correct alignment"
          [] f = "Mechanical Looseness" -> "Inspect mounting and fasteners"
          [] f = "Electrical Issues"    -> "Check electrical connections"]

\* amplitude of the first harmonic of order n, 0 without one.
AmpOfOrder(harmonics, n) ==
    LET at == SelectSeq(harmonics, LAMBDA h : h.harmonic = n)
    IN  IF at = <<>> THEN 0 ELSE at[1].amplitude

\* fault_scores after all the rules have run.
FaultScores(harmonics, fixed_freq_peaks) ==
    LET significant_harmonics == SelectSeq(harmonics, LAMBDA h : h.isSignificant)
        harmonic_count   == Len(significant_harmonics)
        amp_1x           == AmpOfOrder(harmonics, 1)
        amp_2x           == AmpOfOrder(harmonics, 2)
        higher_harmonics == SelectSeq(significant_harmonics, LAMBDA h : h.harmonic >= 3)
        unbalance        == amp_1x > 0 /\ harmonic_count <= 2
    IN  [f \in Range(FaultOrder) |->
            CASE f = "Unbalance" ->
                    (IF unbalance THEN 3 ELSE 0)
                    \* amp_2x < amp_1x * 0.3
                    + (IF unbalance /\ amp_2x * 10 < amp_1x * 3 THEN 2 ELSE 0)
              [] f = "Misalignment" ->
                    \* amp_2x > amp_1x * 0.5
                    (IF amp_2x * 2 > amp_1x THEN 3 ELSE 0)
              [] f = "Mechanical Looseness" ->
                    (IF harmonic_count >= 4 THEN 3 ELSE 0)
                    + (IF Len(higher_harmonics) >= 3 THEN 2 ELSE 0)
              [] f = "Electrical Issues" ->
                    (IF Len(fixed_freq_peaks) >= 2 THEN 2 ELSE 0)
              [] f = "Normal" ->
                    \* amp_1x < 1.0
                    (IF harmonic_count <= 1 /\ amp_1x < AmpPerMm THEN 3 ELSE 0)]

\* The evidence list, appended to in the order of the rules.
FaultEvidence(harmonics, fixed_freq_peaks) ==
    LET significant_harmonics == SelectSeq(harmonics, LAMBDA h : h.isSignificant)
        harmonic_count   == Len(significant_harmonics)
        amp_1x           == AmpOfOrder(harmonics, 1)
        amp_2x           == AmpOfOrder(harmonics, 2)
        higher_harmonics == SelectSeq(significant_harmonics, LAMBDA h : h.harmonic >= 3)
        unbalance        == amp_1x > 0 /\ harmonic_count <= 2
    IN  (IF unbalance THEN <<"Dominant 1x running frequency peak">> ELSE <<>>)
        \o (IF unbalance /\ amp_2x * 10 < amp_1x * 3
                THEN <<"Low harmonic content">> ELSE <<>>)
        \o (IF amp_2x * 2 > amp_1x
                THEN <<"Elevated 2x harmonic relative to 1x">> ELSE <<>>)
        \o (IF harmonic_count >= 4
                THEN <<EvMultipleHarmonics(harmonic_count)>> ELSE <<>>)
        \o (IF Len(higher_harmonics) >= 3
                THEN <<"Significant higher harmonic content (3x and above)">> ELSE <<>>)
        \o (IF Len(fixed_freq_peaks) >= 2
                THEN <<EvElectrical(Len(fixed_freq_peaks))>> ELSE <<>>)
        \o (IF harmonic_count <= 1 /\ amp_1x < AmpPerMm
                THEN <<"Low overall vibration levels">> ELSE <<>>)

\* max(fault_scores, key=fault_scores.get): the first key, in insertion
\* order, that carries the maximum score.
MaxScoreFault(fault_scores) ==
    LET k == CHOOSE i \in DOMAIN FaultOrder :
                 /\ \A j \in DOMAIN FaultOrder :
                        fault_scores[FaultOrder[j]] <= fault_scores[FaultOrder[i]]
                 /\ \A j \in DOMAIN FaultOrder :
                        fault_scores[FaultOrder[j]] = fault_scores[FaultOrder[i]] => i <= j
    IN  FaultOrder[k]

\* A variant whose High confidence starts at score 6.
ConfidenceOfScoreSix(max_score) ==
    IF max_score >= 6 THEN "High"
    ELSE IF max_score >= 3 THEN "Medium"
    ELSE "Low"

ConfidenceOfScore(max_score) ==
    IF max_score >= 5 THEN "High"
    ELSE IF max_score >= 3 THEN "Medium"
    ELSE "Low"

diagnose_bearing_fault(harmonics, fixed_freq_peaks) ==
    LET fault_scores == FaultScores(harmonics, fixed_freq_peaks)
        evidence     == FaultEvidence(harmonics, fixed_freq_peaks)
        fault_type   == MaxScoreFault(fault_scores)
        max_score    == fault_scores[fault_type]
        confidence   == ConfidenceOfScore(max_score)
    IN  [faultType      |-> fault_type,
         confidence     |-> confidence,
         harmonicCount  |-> Len(SelectSeq(harmonics, LAMBDA h : h.isSignificant)),
         evidence       |-> IF evidence # <<>> THEN evidence
                            ELSE <<"No specific fault indicators detected">>,
         recommendation |-> recommendations[fault_type],
         action         |-> IF fault_type # "Normal" /\ confidence = "High"
                                THEN "Immediate Inspection Required"
                            ELSE IF fault_type # "Normal" /\ confidence = "Medium"
                                THEN "Schedule Inspection"
                            ELSE "Monitor"]

--------------------------------------------------------------------------
(* fft_analysis.py: sanitize_float, sanitize_dict.                         *)
(*                                                                         *)
(* A Python value is a record: cls is its type, items the entries of a     *)
(* dict (key k, value val), of a list or of a tuple (k = "") in order,     *)
(* special tells a float that is NaN, +Infinity or -Infinity from a finite *)
(* one, and v is the number of a finite float, an int or a bool.           *)

JValue(cls, items, special, v) == [cls |-> cls, items |-> items, special |-> special, v |-> v]

JNone == JValue("none", <<>>, "", 0)
JStr == JValue("str", <<>>, "", 0)
JInt(n) == JValue("int", <<>>, "", n)
JBool(b) == JValue("bool", <<>>, "", IF b THEN 1 ELSE 0)
JFloat(x) == JValue("float", <<>>, "", x)
JNan == JValue("float", <<>>, "nan", 0)
JInf == JValue("float", <<>>, "inf", 0)
JNegInf == JValue("float", <<>>, "-inf", 0)

\* A list, a tuple and a dict of the given values and entries.
JList(values) == JValue("list", [i \in DOMAIN values |-> [k |-> "", val |-> values[i]]], "", 0)
JTuple(values) == JValue("tuple", [i \in DOMAIN values |-> [k |-> "", val |-> values[i]]], "", 0)
JDict(entries) ==
    JValue("dict", [i \in DOMAIN entries |-> [k |-> entries[i][1], val |-> entries[i][2]]], "", 0)

\* The value that replaces an infinity.
Sentinel == 99999

\* A variant of sanitize_float that replaces both infinities by the
\* positive sentinel.
sanitize_float_unsigned(value) ==
    IF value.cls = "none" THEN value
    ELSE IF value.cls = "float" /\ value.special = "nan" THEN JFloat(0)
    ELSE IF value.cls = "float" /\ value.special \in {"inf", "-inf"} THEN JFloat(Sentinel)
    ELSE value

sanitize_float(value) ==
    IF value.cls = "none" THEN value
    ELSE IF value.cls = "float" /\ value.special = "nan" THEN JFloat(0)
    ELSE IF value.cls = "float" /\ value.special \in {"inf", "-inf"}
        THEN (IF value.special = "inf" THEN JFloat(Sentinel) ELSE JFloat(0 - Sentinel))
    ELSE value

RECURSIVE sanitize_dict(_)
sanitize_dict(obj) ==
    IF obj.cls = "dict"
        THEN [obj EXCEPT !.items = [i \in DOMAIN obj.items |->
                                       [k   |-> obj.items[i].k,
                                        val |-> sanitize_dict(obj.items[i].val)]]]
    ELSE IF obj.cls = "list"
        THEN [obj EXCEPT !.items = [i \in DOMAIN obj.items |->
                                       [k   |-> obj.items[i].k,
                                        val |-> sanitize_dict(obj.items[i].val)]]]
    ELSE IF obj.cls = "float" THEN sanitize_float(obj)
    ELSE obj

\* The dict perform_complete_analysis builds before it sanitizes it, for
\* a spectrum of one point, a time series of one row and at most one
\* harmonic: rpm_value is the RPM given, amp the amplitude of the
\* spectrum point, sample the time series value, rms the velocity RMS and
\* found tells whether a peak lies in the band of the running frequency.
\* running_freq and fmax are NaN or infinite as the RPM is.
AnalysisResult(rpm_value, amp, sample, rms, found) ==
    LET derived == IF rpm_value.special = "" THEN JFloat(rpm_value.v \div 60) ELSE rpm_value
        peak    == JDict(<< <<"frequency", JFloat(50)>>, <<"amplitude", amp>>,
                            <<"targetFrequency", derived>>, <<"tolerance", JFloat(0)>> >>)
        harmonic == JDict(<< <<"harmonic", JInt(1)>>, <<"label", JStr>>,
                             <<"targetFrequency", derived>>,
                             <<"detectedFrequency", JFloat(50)>>, <<"amplitude", amp>>,
                             <<"isSignificant", JBool(TRUE)>> >>)
    IN  JDict(<< <<"axis", JStr>>,
                 <<"rpm", rpm_value>>,
                 <<"runningFrequency", derived>>,
                 <<"sampleRate", JFloat(1000)>>,
                 <<"dataPoints", JInt(100)>>,
                 <<"fftSpectrum", JList(<< JDict(<< <<"frequency", JFloat(50)>>,
                                                    <<"amplitude", amp>> >>) >>)>>,
                 <<"timeseries", JList(<< JList(<<JFloat(0), sample>>) >>)>>,
                 <<"peakAt1x", IF found THEN peak ELSE JNone>>,
                 <<"harmonics", IF found THEN JList(<<harmonic>>) ELSE JList(<<>>)>>,
                 <<"harmonicCount", JInt(IF found THEN 1 ELSE 0)>>,
                 <<"fixedFrequencyPeaks", JList(<<>>)>>,
                 <<"severity", JDict(<< <<"zone", JStr>>, <<"label", JStr>>,
                                        <<"color", JStr>>, <<"velocityRMS", rms>>,
                                        <<"machineClass", JStr>>,
                                        <<"thresholds", JDict(<< <<"A", JFloat(1)>>,
                                                                 <<"D", JInt(Sentinel)>> >>)>> >>)>>,
                 <<"diagnosis", JDict(<< <<"faultType", JStr>>, <<"confidence", JStr>>,
                                         <<"harmonicCount", JInt(IF found THEN 1 ELSE 0)>>,
                                         <<"evidence", JList(<<JStr>>)>> >>)>>,
                 <<"processingInfo", JDict(<< <<"cutoffFrequency", JNone>>,
                                              <<"calibrationValue", JFloat(1)>>,
                                              <<"fmax", derived>>,
                                              <<"signalProcessing", JStr>> >>)>> >>)

--------------------------------------------------------------------------
(* diagnosis_engine.py: perform_enhanced_diagnosis.                        *)
(*                                                                         *)
(* A harmonic is [frequency |-> Hz, amplitude |-> 0.01 mm/s]; a multiplier *)
(* is kept doubled (1 for 0.5x, 2 for 1x, ...), so that 0.5x needs no      *)
(* fraction.  Evidence strings that the code formats with a measured       *)
(* value are kept without the value.                                       *)

\* The first harmonic within 2% (FREQUENCY_TOLERANCE) of multiplier *
\* running_freq, or None.
find_peak_at_multiple(harmonics, multiplier2, running_freq) ==
    LET hit == {i \in DOMAIN harmonics :
                    /\ harmonics[i].frequency * 200 >= multiplier2 * running_freq * 98
                    /\ harmonics[i].frequency * 200 <= multiplier2 * running_freq * 102}
    IN  IF hit = {} THEN None
        ELSE harmonics[CHOOSE i \in hit : \A j \in hit : i <= j]

get_amplitude_at_multiple(harmonics, multiplier2, running_freq) ==
    LET peak == find_peak_at_multiple(harmonics, multiplier2, running_freq)
    IN  IF peak # None THEN peak.amplitude ELSE 0

\* A variant of get_max_amplitude that takes the amplitude of the first
\* harmonic of the list.
get_first_amplitude(harmonics) ==
    IF harmonics = <<>> THEN 0 ELSE harmonics[1].amplitude

get_max_amplitude(harmonics) ==
    IF harmonics = <<>> THEN 0
    ELSE CHOOSE a \in {harmonics[i].amplitude : i \in DOMAIN harmonics} :
             \A i \in DOMAIN harmonics : harmonics[i].amplitude <= a

\* The keys of fault_scores in insertion order.
EnhancedFaultOrder ==
    <<"Unbalance", "Misalignment", "Coupling Defects", "Bearing Looseness",
      "Bearing Fitment", "High Vibration">>

\* The score below which a fault is not detected.
DetectionScore == 4

\* len(significant_harmonics): amplitude > 10% of the maximum, or > 0.01
\* when the maximum is 0.
EnhancedHarmonicCount(harmonics) ==
    LET max_amp == get_max_amplitude(harmonics)
    IN  Cardinality({i \in DOMAIN harmonics :
                         IF max_amp > 0 THEN harmonics[i].amplitude * 10 > max_amp
                                        ELSE harmonics[i].amplitude > 1})

\* The rules of the six faults, in the order of the code: for each fault
\* the sequence of << points, evidence >> of the rules that fired.
EnhancedRules(harmonics, running_freq, severity_zone, velocity_rms) ==
    LET amp_05x == get_amplitude_at_multiple(harmonics, 1, running_freq)
        amp_1x  == get_amplitude_at_multiple(harmonics, 2, running_freq)
        amp_2x  == get_amplitude_at_multiple(harmonics, 4, running_freq)
        amp_3x  == get_amplitude_at_multiple(harmonics, 6, running_freq)
        amp_4x  == get_amplitude_at_multiple(harmonics, 8, running_freq)
        max_amp == get_max_amplitude(harmonics)
        harmonic_count == EnhancedHarmonicCount(harmonics)
        has_rms == velocity_rms # None /\ Val(velocity_rms) # 0
        Rule(fired, points, evidence) == IF fired THEN << <<points, evidence>> >> ELSE <<>>
    IN  [f \in Range(EnhancedFaultOrder) |->
            CASE f = "Unbalance" ->
                    Rule(amp_1x * 10 >= max_amp * 7, 3, "Dominant 1x running frequency peak")
                    \o Rule(amp_1x > 0 /\ amp_2x * 100 < amp_1x * 35
                                        /\ amp_3x * 100 < amp_1x * 25,
                            2, "Low harmonic content")
              [] f = "Misalignment" ->
                    Rule(amp_1x > 0 /\ amp_2x * 10 > amp_1x * 3, 3, "Significant 2x harmonic")
                    \o Rule(amp_1x > 0 /\ amp_3x * 100 > amp_1x * 15, 2, "Elevated 3x harmonic")
              [] f = "Coupling Defects" ->
                    Rule(amp_1x > 0 /\ amp_3x * 2 > amp_1x, 3, "Strong 3x harmonic")
                    \o Rule(amp_1x > 0 /\ amp_4x * 10 > amp_1x * 4, 3, "Strong 4x harmonic")
                    \o Rule(harmonic_count >= 4, 2, "Multiple harmonics detected")
              [] f = "Bearing Looseness" ->
                    Rule(amp_05x * 10 > max_amp, 4, "0.5x subharmonic detected")
                    \o Rule(harmonic_count >= 4, 2, "Multiple harmonics of 1x order")
              [] f = "Bearing Fitment" ->
                    Rule(amp_2x * 10 > amp_1x * 9, 4, "2x dominant")
                    \o Rule(amp_2x * 10 >= max_amp * 9, 2, "2x is the dominant peak")
              [] f = "High Vibration" ->
                    \* severity_zone in ['C', 'D'] or velocity_rms > 2.8
                    Rule(severity_zone \in {Some("C"), Some("D")}
                             \/ (has_rms /\ Val(velocity_rms) > 280),
                         3,
                         IF has_rms THEN "High overall vibration level"
                                    ELSE "Vibration in zone (elevated)")]

RECURSIVE SumPoints(_)
SumPoints(fired) == IF fired = <<>> THEN 0 ELSE fired[1][1] + SumPoints(Tail(fired))

\* fault_scores: the points of the rules that fired, per fault.
EnhancedScores(rules) == [f \in DOMAIN rules |-> SumPoints(rules[f])]

\* evidence_lists
EnhancedEvidence(rules) == [f \in DOMAIN rules |-> [i \in DOMAIN rules[f] |-> rules[f][i][2]]]

\* detected_faults: the faults with score >= 4, or High Vibration alone
\* when there is none and its score is >= 3; as the sequence of their
\* positions in fault_scores, ascending.
DetectedFaults(fault_scores) ==
    LET detected == {i \in DOMAIN EnhancedFaultOrder :
                         fault_scores[EnhancedFaultOrder[i]] >= DetectionScore}
    IN  IF detected = {} /\ fault_scores["High Vibration"] >= 3
            THEN {Len(EnhancedFaultOrder)}
            ELSE detected

\* A variant of the selection below that keeps the last of the faults
\* sharing the highest score.
BestFaultLast(detected, fault_scores) ==
    EnhancedFaultOrder[
        CHOOSE i \in detected :
            \A j \in detected :
                \/ fault_scores[EnhancedFaultOrder[j]] < fault_scores[EnhancedFaultOrder[i]]
                \/ (fault_scores[EnhancedFaultOrder[j]] = fault_scores[EnhancedFaultOrder[i]]
                    /\ j <= i)]

\* max(detected_faults, key=detected_faults.get): the first key, in
\* insertion order, with the highest score.
BestFault(detected, fault_scores) ==
    EnhancedFaultOrder[
        CHOOSE i \in detected :
            \A j \in detected :
                \/ fault_scores[EnhancedFaultOrder[j]] < fault_scores[EnhancedFaultOrder[i]]
                \/ (fault_scores[EnhancedFaultOrder[j]] = fault_scores[EnhancedFaultOrder[i]]
                    /\ i <= j)]

\* A variant whose High starts at a best score of 5.
EnhancedConfidenceFromFive(best_score, severity_zone) ==
    LET confidence == IF best_score >= 5 THEN "High"
                      ELSE IF best_score >= DetectionScore THEN "Medium"
                      ELSE "Low"
    IN  IF severity_zone \in {Some("C"), Some("D")} /\ confidence = "Medium"
            THEN "High" ELSE confidence

\* A variant that also promotes Low to High in zones C and D.
EnhancedConfidencePromoteAll(best_score, severity_zone) ==
    IF best_score >= 6 \/ severity_zone \in {Some("C"), Some("D")} THEN "High"
    ELSE IF best_score >= DetectionScore THEN "Medium"
    ELSE "Low"

\* The confidence of the best score, Medium promoted to High in zones C
\* and D.
EnhancedConfidence(best_score, severity_zone) ==
    LET confidence == IF best_score >= 6 THEN "High"
                      ELSE IF best_score >= DetectionScore THEN "Medium"
                      ELSE "Low"
    IN  IF severity_zone \in {Some("C"), Some("D")} /\ confidence = "Medium"
            THEN "High" ELSE confidence

\* A variant of the pre-check below that tests only whether the RPM is
\* given, not its value.
MissingDataAbsentOnly(rpm, harmonics) ==
    (IF rpm = None THEN <<"RPM">> ELSE <<>>)
    \o (IF harmonics = <<>> THEN <<"FFT peak data">> ELSE <<>>)

\* missing_data of the pre-check.
MissingData(rpm, harmonics) ==
    (IF rpm = None \/ Val(rpm) = 0 \/ Val(rpm) <= 0 THEN <<"RPM">> ELSE <<>>)
    \o (IF harmonics = <<>> THEN <<"FFT peak data">> ELSE <<>>)

\* f'Required data missing: {", ".join(missing_data)}'
MissingDataText(missing_data) ==
    CASE missing_data = <<"RPM">>                  -> "Required data missing: RPM"
      [] missing_data = <<"FFT peak data">>        -> "Required data missing: FFT peak data"
      [] missing_data = <<"RPM", "FFT peak data">> -> "Required data missing: RPM, FFT peak data"

\* rpm, running_freq, severity_zone and velocity_rms are optional.  scored
\* tells whether the call went past the pre-check and computed the scores.
perform_enhanced_diagnosis(rpm, harmonics, running_freq, severity_zone, velocity_rms) ==
    LET missing_data == MissingData(rpm, harmonics)
    IN  IF missing_data # <<>>
            THEN [fault          |-> "Diagnosis unavailable",
                  confidence     |-> "Low",
                  evidence       |-> <<MissingDataText(missing_data)>>,
                  recommendation |-> "Ensure all required data is available for diagnosis"]
        ELSE
        LET freq == IF running_freq = None \/ Val(running_freq) <= 0
                        THEN Val(rpm) \div 60 ELSE Val(running_freq)
            rules        == EnhancedRules(harmonics, freq, severity_zone, velocity_rms)
            fault_scores == EnhancedScores(rules)
            detected     == DetectedFaults(fault_scores)
            has_rms      == velocity_rms # None /\ Val(velocity_rms) # 0
            in_c_or_d    == severity_zone \in {Some("C"), Some("D")}
        IN  IF detected = {}
                THEN IF in_c_or_d
                         THEN [fault          |-> "High Vibration",
                               confidence     |-> "Medium",
                               evidence       |-> <<"Overall vibration level elevated",
                                                    "No specific fault pattern identified">>,
                               recommendation |->
                                   "Detailed inspection recommended to identify root cause"]
                         ELSE [fault          |-> "Normal",
                               confidence     |-> "High",
                               evidence       |->
                                   <<"No significant fault indicators detected from available data">>,
                               recommendation |-> "Continue regular monitoring"]
            ELSE
            LET best_fault_name == BestFault(detected, fault_scores)
                best_score      == fault_scores[best_fault_name]
                evidence        == EnhancedEvidence(rules)[best_fault_name]
                                   \o (IF in_c_or_d /\ has_rms
                                           THEN <<"Zone vibration level">> ELSE <<>>)
            IN  [fault         |-> best_fault_name,
                 confidence    |-> EnhancedConfidence(best_score, severity_zone),
                 evidence      |-> IF evidence # <<>> THEN evidence
                                   ELSE <<"Fault pattern detected">>,
                 harmonicCount |-> EnhancedHarmonicCount(harmonics),
                 allFaults     |-> [f \in DOMAIN fault_scores |->
                                       [score    |-> fault_scores[f],
                                        detected |-> fault_scores[f] >= DetectionScore]]]

\* The harmonics of detect_harmonics as find_peak_at_multiple reads them:
\* h.get('frequency', h.get('detectedFrequency', 0)) is the detected
\* frequency, a harmonic of detect_harmonics having no key 'frequency'.
PeaksOf(harmonics) ==
    [i \in DOMAIN harmonics |-> [frequency |-> harmonics[i].detectedFrequency,
                                 amplitude |-> harmonics[i].amplitude]]

\* detect_harmonics followed by perform_enhanced_diagnosis on its result,
\* without severity zone or velocity RMS.  rpm is a multiple of 60.
harmonic_pipeline(spectrum, rpm) ==
    LET harmonics == detect_harmonics(spectrum, rpm)
    IN  [harmonics |-> harmonics,
         \* what the diagnosis finds at 1x, 2x, 3x and 4x
         lookups   |-> [n \in 1..4 |->
                           find_peak_at_multiple(PeaksOf(harmonics), 2 * n, rpm \div 60)],
         diagnosis |-> perform_enhanced_diagnosis(Some(rpm), PeaksOf(harmonics),
                                                  Some(rpm \div 60), None, None)]

--------------------------------------------------------------------------
(* fft_analysis.py: perform_complete_analysis.                             *)

\* The sample floor of perform_complete_analysis and of both aggregators.
MinSamples == 100

\* A variant that checks the data length before the RPM.
ValidateInputsDataFirst(n_samples, sample_rate, rpm) ==
    IF n_samples < MinSamples
        THEN Some("Insufficient vibration data for analysis")
    ELSE IF rpm = None \/ Val(rpm) <= 0
        THEN Some("Valid RPM is required for analysis")
    ELSE IF sample_rate <= 0
        THEN Some("Valid sample rate is required")
    ELSE None

\* The three input checks, in the order of the code: the message of the
\* ValueError raised, or None when the inputs pass.  rpm is optional
\* (None or <<value>>), n_samples is len(raw_data).
ValidateInputs(n_samples, sample_rate, rpm) ==
    IF rpm = None \/ Val(rpm) <= 0
        THEN Some("Valid RPM is required for analysis")
    ELSE IF n_samples < MinSamples
        THEN Some("Insufficient vibration data for analysis")
    ELSE IF sample_rate <= 0
        THEN Some("Valid sample rate is required")
    ELSE None

\* fmax = min(running_freq * 12, sample_rate / 2), in 1/60 Hz.
Fmax60(sample_rate, rpm) == Min2(rpm * 12, sample_rate * 30)

\* sqrt(sum(relevant_amps ** 2)): the amplitudes in 10 Hz .. min(1000 Hz,
\* last frequency), or all of them when no bin lies in that range.
RECURSIVE SumSquares(_, _, _, _)
SumSquares(spectrum, lo, hi, keep_all) ==
    IF lo > hi THEN 0
    ELSE IF lo = hi
        THEN IF keep_all \/ (spectrum[lo].frequency >= 10 /\ spectrum[lo].frequency <= 1000)
                 THEN spectrum[lo].amplitude * spectrum[lo].amplitude ELSE 0
    ELSE LET mid == (lo + hi) \div 2
         IN  SumSquares(spectrum, lo, mid, keep_all)
             + SumSquares(spectrum, mid + 1, hi, keep_all)

VelocityRmsOverall(spectrum) ==
    LET high_cutoff == Min2(1000, spectrum[Len(spectrum)].frequency)
        any_in_mask == \E i \in DOMAIN spectrum :
                           spectrum[i].frequency >= 10 /\ spectrum[i].frequency <= high_cutoff
    IN  SqrtUp(SumSquares(spectrum, 1, Len(spectrum), ~ any_in_mask))

\* velocity_rms: the higher of the overall RMS and the 1x peak amplitude.
VelocityRms(spectrum, rpm) ==
    LET peak_1x         == find_peak_in_band(spectrum, rpm)
        velocity_rms_1x == IF peak_1x # None THEN peak_1x.amplitude ELSE 0
    IN  Max2(VelocityRmsOverall(spectrum), velocity_rms_1x)

\* The most points the spectrum for the frontend is meant to have.
max_points == 2000

\* The spectrum for the frontend, for n bins below fmax: with more than
\* max_points bins every step-th bin from the first on (freqs[::step]),
\* step = n // max_points; else all of them.  points is the length of
\* fft_spectrum.
output_spectrum(n) ==
    IF n > max_points
        THEN LET step == n \div max_points
             IN  [step   |-> step,
                  points |-> Cardinality({i \in 0..(n - 1) : i % step = 0})]
        ELSE [step |-> 1, points |-> n]

\* The 1x peak, the velocity value classified and its severity, for a
\* spectrum and an RPM.
classify_velocity(spectrum, rpm, machine_class) ==
    [peakAt1x |-> find_peak_in_band(spectrum, rpm),
     severity |-> get_iso_severity_zone(VelocityRms(spectrum, rpm), machine_class)]

\* Everything after velocity_convert: peak, harmonics, fixed frequencies,
\* velocity RMS, severity, diagnosis, and the result dict.
AnalyseSpectrum(spectrum, n_samples, sample_rate, rpm, axis, machine_class) ==
    LET peak_1x          == find_peak_in_band(spectrum, rpm)
        harmonics        == detect_harmonics(spectrum, rpm)
        fixed_freq_peaks == detect_fixed_frequencies(spectrum)
        velocity_rms     == VelocityRms(spectrum, rpm)
    IN  [axis                |-> axis,
         rpm                 |-> rpm,
         sampleRate          |-> sample_rate,
         dataPoints          |-> n_samples,
         peakAt1x            |-> peak_1x,
         harmonics           |-> harmonics,
         harmonicCount       |-> Len(SelectSeq(harmonics, LAMBDA h : h.isSignificant)),
         fixedFrequencyPeaks |-> fixed_freq_peaks,
         severity            |-> get_iso_severity_zone(velocity_rms, machine_class),
         diagnosis           |-> diagnose_bearing_fault(harmonics, fixed_freq_peaks)]

\* The call as a whole: [raised |-> <<message>>] or [raised |-> None,
\* result |-> the analysis].  raw_data is [n |-> len, sig |-> waveform].
perform_complete_analysis(raw_data, sample_rate, rpm, axis, machine_class) ==
    LET invalid == ValidateInputs(raw_data.n, sample_rate, rpm)
    IN  IF invalid # None THEN [raised |-> invalid]
        ELSE [raised |-> None,
              result |-> AnalyseSpectrum(
                             velocity_convert(raw_data.sig, sample_rate,
                                              Fmax60(sample_rate, Val(rpm))),
                             raw_data.n, sample_rate, Val(rpm), axis, machine_class)]

--------------------------------------------------------------------------
(* What the acquisition API can answer for one axis.                       *)
(*                                                                         *)
(* A JSON field that the handlers convert with float() is                  *)
(*   [kind |-> "missing"]          absent or null,                         *)
(*   [kind |-> "text"]             a non-empty string float() rejects,     *)
(*   [kind |-> "num", val |-> v]   a number (or a string float() accepts). *)
(* rawData is [kind, len, items, junk, sig]: kind "missing" (the key is    *)
(* absent), "null", "list" or "str"; len is Python's len() of the field    *)
(* (elements of a list, characters of a string); items is the number of    *)
(* elements (non-blank comma-separated pieces of a string); junk of them   *)
(* are strings float() rejects; sig is the waveform the remaining samples  *)
(* form.                                                                   *)

Missing == [kind |-> "missing"]

Text == [kind |-> "text"]

Num(v) == [kind |-> "num", val |-> v]

\* Python truthiness of a JSON field.
Truthy(field) == field.kind = "text" \/ (field.kind = "num" /\ field.val # 0)

\* Sample spectra: <<frequency Hz, amplitude>> lines.
Quiet == {<<25, 5>>}

Mild == {<<25, 150>>, <<50, 60>>}

Triple == {<<25, 300>>, <<50, 100>>, <<75, 100>>}

Loose == {<<25, 500>>, <<50, 300>>, <<75, 300>>, <<100, 300>>, <<125, 300>>, <<150, 300>>}

Hum == {<<50, 90>>, <<100, 20>>}

\* Number of samples of a full acquisition.
FullLength == 20000

NoData == [kind |-> "missing", len |-> 0, items |-> 0, junk |-> 0, sig |-> {}]

NullData == [NoData EXCEPT !.kind = "null"]

Samples(sig) ==
    [kind |-> "list", len |-> FullLength, items |-> FullLength, junk |-> 0, sig |-> sig]

Answer(status, rawData, rpm, SR) ==
    [status |-> status, rawData |-> rawData, rpm |-> rpm, SR |-> SR]

AxisResponses ==
    \* the API refuses
    { Answer(500, NoData, Missing, Missing) }
    \* no rawData key, a null rawData, 50 samples, 120 elements of which 40
    \* parse, a string with an unparsable piece
    \cup { Answer(200, NoData, Num(1500), Num(10000)),
           Answer(200, NullData, Num(1500), Num(10000)),
           Answer(200, [Samples(Quiet) EXCEPT !.len = 50, !.items = 50],
                  Num(1500), Num(10000)),
           Answer(200, [Samples(Quiet) EXCEPT !.len = 120, !.items = 120, !.junk = 80],
                  Num(1500), Missing),
           Answer(200, [Samples(Quiet) EXCEPT !.kind = "str", !.len = 400,
                                              !.items = 120, !.junk = 1],
                  Num(1500), Num(10000)) }
    \* a full acquisition whose RPM is missing, unparsable, zero, negative
    \cup { Answer(200, Samples(Mild), r, Num(10000)) :
               r \in {Missing, Text, Num(0), Num(0 - 5)} }
    \* a full acquisition with a negative sample rate
    \cup { Answer(200, Samples(Quiet), Num(1500), Num(0 - 1)) }
    \* full acquisitions
    \cup { Answer(200, Samples(sig), Num(1500), Text) :
               sig \in {Quiet, Mild, Triple, Loose} }
    \cup { Answer(200, Samples(Hum), Num(3000), Num(10000)) }

--------------------------------------------------------------------------
(* State.                                                                  *)

VARIABLES
    handler,            \* the entry point this behaviour runs
    request,            \* its inputs, fixed for the whole behaviour
    pc,                 \* position inside the handler
    run,                \* how many times the handler has been started
    axis_i,             \* number of axes the loop has been through
    axis_results,       \* get_fft_analysis: axis_results; the report: axisData
    rpm,                \* get_fft_analysis: rpm (None or <<value>>)
    sample_rate,        \* get_fft_analysis: sample_rate (None or <<value>>)
    overall_severity,   \* get_fft_analysis: overall_severity
    overall_diagnosis,  \* get_fft_analysis: the axis whose diagnosis dict
                        \* overall_diagnosis refers to, None or <<axis>>
    all_evidence,       \* get_fft_analysis: all_evidence
    max_harmonic_count, \* get_fft_analysis: max_harmonic_count
    hashseed,           \* the string hash seed of the interpreter that ran the
                        \* latest aggregation (0 before it)
    worst_severity,     \* prepare_report_data: worst_severity
    fft_data,           \* perform_complete_analysis: the spectrum
    invoked,            \* perform_complete_analysis: the stages run so far
    calls,              \* log of the calls of perform_complete_analysis made
                        \* by an aggregator: axis, the rpm passed, what came back
    response,           \* what the handler returned or raised
    first_response      \* the response of the first run

vars == << handler, request, pc, run, axis_i, axis_results, rpm, sample_rate,
           overall_severity, overall_diagnosis, all_evidence, max_harmonic_count,
           hashseed, worst_severity, fft_data, invoked, calls, response,
           first_response >>

\* Number of times a handler is run on the same request.
MaxRuns == 2

\* Number of string hash seeds told apart.
NSeeds == 2

axes == <<"H-Axis", "V-Axis", "A-Axis">>

\* axis.replace('-Axis', '')
AxisShort(axis) ==
    CASE axis = "H-Axis" -> "H"
      [] axis = "V-Axis" -> "V"
      [] axis = "A-Axis" -> "A"

\* One request to an aggregator: the API's answer for each of the three
\* axes, and the machine_class query parameter.
Requests ==
    [responses : [DOMAIN axes -> AxisResponses], machine_class : {"II"}]

\* ISO boundary values (each threshold and the value just above it), which
\* the single-line waveforms below turn into velocity RMS values.
BoundaryRms ==
    {0} \cup UNION { {ISO_THRESHOLDS[c][z], ISO_THRESHOLDS[c][z] + 1} :
                         c \in DOMAIN ISO_THRESHOLDS, z \in {"A", "B", "C"} }

Tone(v) == {<<25, v>>}

\* One direct call of perform_complete_analysis.
Calls ==
    [raw_data      : { [n |-> n, sig |-> sig] :
                           n \in {MinSamples \div 2, MinSamples},
                           sig \in {Mild, Loose, Hum} \cup {Tone(v) : v \in BoundaryRms} },
     sample_rate   : {0, 200, 10000},
     rpm           : {None, Some(0 - 5), Some(0), Some(1500), Some(3000)},
     axis          : {"V"},
     machine_class : {"I", "II", "III", "IV", "V"}]

\* Longest harmonic list handed to diagnose_bearing_fault on its own.
MaxOrders == 5

\* Harmonic amplitudes told apart: none, 10% and 42% of the largest, and
\* one on either side of 1.0 mm/s.
DiagAmps == {0, 5, 50, 120}

\* The list detect_harmonics builds, at 1500 rpm, from a spectrum whose peak
\* in the band of order n has amplitude amps[n]: the reference amplitude
\* is the amplitude of the 1x peak.
HarmonicsOf(amps) ==
    [n \in DOMAIN amps |->
        [harmonic          |-> n,
         targetFrequency   |-> n * 1500,
         detectedFrequency |-> n * 25,
         amplitude         |-> amps[n],
         isSignificant     |-> amps[n] * 10 >= amps[1]]]

\* The list detect_fixed_frequencies builds when it finds count peaks.
FixedPeaksOf(count) ==
    [k \in 1..count |->
        [targetFrequency   |-> target_freqs[k],
         detectedFrequency |-> target_freqs[k],
         amplitude         |-> 0]]

\* One call of diagnose_bearing_fault, as perform_complete_analysis makes it.
Diagnoses ==
    [harmonics        : UNION { {HarmonicsOf(amps) : amps \in [1..len -> DiagAmps]} :
                                    len \in 0..MaxOrders },
     fixed_freq_peaks : {FixedPeaksOf(count) : count \in {0, 1, 2, 5}}]

\* Frequencies, in Hz, of the points of the spectra handed to
\* find_peak_in_band on its own: 95 and 105 are the ends of the band of a
\* 100 Hz centre, 90 and 110 lie outside it.
PeakFreqs == <<90, 95, 100, 105, 110>>

\* Largest amplitude of those points.
MaxPeakAmp == 2

\* The points of spectrum amps (a function from a set of positions of
\* PeakFreqs to amplitudes) from position k on, in ascending frequency.
RECURSIVE PointsFrom(_, _)
PointsFrom(k, amps) ==
    IF k > Len(PeakFreqs) THEN <<>>
    ELSE (IF k \in DOMAIN amps
              THEN << [frequency |-> PeakFreqs[k], amplitude |-> amps[k]] >>
              ELSE <<>>)
         \o PointsFrom(k + 1, amps)

\* One call of find_peak_in_band: a spectrum over any subset of PeakFreqs
\* and a centre (negative, zero, 90, 100, 104 or 120 Hz) in 1/60 Hz.
PeakCalls ==
    [spectrum : UNION { {PointsFrom(1, amps) : amps \in [at -> 0..MaxPeakAmp]} :
                            at \in SUBSET DOMAIN PeakFreqs },
     center60 : {0 - 6000, 0, 5400, 6000, 6240, 7200}]

\* Harmonic amplitudes handed to perform_enhanced_diagnosis: none, 20%,
\* 50% and 100% of the largest.
EnhancedAmps == {0, 2, 5, 10}

\* Multipliers (doubled) of the harmonics handed to it: 0.5x, 1x, 2x, 3x, 4x.
EnhancedOrders == <<1, 2, 4, 6, 8>>

\* The harmonic list of a machine running at 3000 rpm (50 Hz) whose peak
\* at EnhancedOrders[k] has amplitude amps[k].
EnhancedHarmonics(amps) ==
    [k \in DOMAIN amps |-> [frequency |-> EnhancedOrders[k] * 25, amplitude |-> amps[k]]]

\* One call of perform_enhanced_diagnosis: with everything it needs, and
\* with the RPM or the harmonics missing.
EnhancedCalls ==
    [rpm           : {Some(3000)},
     harmonics     : {EnhancedHarmonics(amps) : amps \in [DOMAIN EnhancedOrders -> EnhancedAmps]},
     running_freq  : {None},
     severity_zone : {None, Some("A"), Some("C"), Some("D")},
     velocity_rms  : {None, Some(300)}]
    \cup
    [rpm           : {None, Some(0), Some(0 - 5), Some(3000)},
     harmonics     : {<<>>, EnhancedHarmonics(<<0, 10>>), EnhancedHarmonics(<<5, 10, 10, 5, 5>>)},
     running_freq  : {None, Some(50)},
     severity_zone : {None, Some("D")},
     velocity_rms  : {None, Some(0), Some(100)}]
    \cup
    \* amplitudes on and beside the thresholds 0.7 and 0.9 of the maximum,
    \* 0.35, 0.25 and 0.9 of the 1x amplitude, and 2.8 mm/s
    [rpm           : {Some(3000)},
     harmonics     : {EnhancedHarmonics(<<0, a1, a2, a3, 0>>) :
                          a1 \in {7, 9, 10, 20}, a2 \in {3, 7, 9, 10, 18}, a3 \in {0, 5}},
     running_freq  : {None},
     severity_zone : {None, Some("B")},
     velocity_rms  : {Some(280), Some(281)}]

\* The values without entries handed to sanitize_dict.
Leaves == {JNone, JStr, JInt(7), JFloat(2), JNan, JInf, JNegInf}

\* Leaves, and containers of one leaf.
Shallow ==
    Leaves
    \cup {JList(<<x>>) : x \in Leaves}
    \cup {JDict(<< <<"a", x>> >>) : x \in Leaves}
    \cup {JTuple(<<x>>) : x \in {JNan, JFloat(2)}}

\* Lists and dicts of two shallow values.
Nested ==
    {JList(<<x, y>>) : x \in Shallow, y \in Shallow}
    \cup {JDict(<< <<"a", x>>, <<"b", y>> >>) : x \in Shallow, y \in Shallow}

\* A float of each kind.
Floats == {JFloat(2), JNan, JInf, JNegInf}

\* The dicts perform_complete_analysis hands to sanitize_dict: the RPM has
\* passed rpm <= 0, so it is positive, +Infinity or NaN, and so is a
\* velocity RMS.
AnalysisResults ==
    {AnalysisResult(rpm_value, amp, sample, rms, found) :
        rpm_value \in {JFloat(3000), JNan, JInf}, amp \in Floats, sample \in Floats,
        rms \in {JFloat(2), JNan, JInf}, found \in BOOLEAN}

SanitizeCalls == Shallow \cup Nested \cup AnalysisResults

\* Frequencies (Hz) of the spectra handed to the pipeline: half of 100 Hz,
\* 100 Hz and two points 4% beside it, 200 Hz and a point 4% above it,
\* 300 Hz and 400 Hz.
PipelineFreqs == <<50, 96, 100, 104, 200, 208, 300, 400>>

\* The amplitudes (0.01 mm/s) each of those points may have.
PipelineAmps ==
    <<{0, 30}, {0, 3}, {0, 3, 30}, {0, 30}, {0, 3, 30}, {0, 30}, {0, 3, 30}, {0, 3, 30}>>

\* One call of the pipeline: a spectrum over PipelineFreqs and a machine
\* running at 100, 150 or 200 Hz.
PipelineCalls ==
    [spectrum : {[k \in DOMAIN PipelineFreqs |->
                     [frequency |-> PipelineFreqs[k], amplitude |-> amps[k]]] :
                 amps \in {a \in [DOMAIN PipelineFreqs -> {0, 3, 30}] :
                               \A k \in DOMAIN PipelineFreqs : a[k] \in PipelineAmps[k]}},
     rpm      : {6000, 9000, 12000}]

\* Sample counts handed to velocity_convert: short data, data around one
\* block and around the ends of the blocks of each overlap, and the ends
\* of the 60% range.
SampleCounts ==
    {1, 4, 5, 99, 100, 9999, 10000, 19999, 20000, 23999, 24000, 27999, 28000,
     31999, 32000, 36000, 39999, 40000, 40001, 43999, 44000, 45000, 49999,
     50000, 50001, 60000, 100000}

\* Resolution multipliers.
Resolutions == {0, 1, 2, 3, 4}

BlockCalls == [n : SampleCounts, highResolution : Resolutions]

\* Numbers of spectrum bins below fmax: few, around max_points and around
\* its multiples, and the 10000 bins of a block of 20000 samples.
BinCounts ==
    {1, 100, 1999, 2000, 2001, 2500, 3000, 3999, 4000, 4001, 4002, 5000, 5999,
     6000, 6001, 7999, 8000, 8001, 10000}

\* Bin width (Hz) of the spectra of slow machines below.
SlowBinHz == 2

\* Amplitudes (0.01 mm/s) of the bins of those spectra.
SlowAmps == {0, 30, 40}

\* The bins that may carry an amplitude; the others, and the bin at 0 Hz
\* that FFT_simple zeroes, are 0.
SlowLines == {2, 4, 8, 10}

\* The spectra velocity_convert can hand over for a machine at speed rpm: the
\* bins 0, SlowBinHz, 2 SlowBinHz, ... strictly below fmax = 12 speed / 60.
SlowSpectra(speed) ==
    LET last == CHOOSE k \in 0..(speed \div SlowBinHz) :
                    /\ k * SlowBinHz * 60 < 12 * speed
                    /\ (k + 1) * SlowBinHz * 60 >= 12 * speed
    IN  {[k \in 1..(last + 1) |->
             [frequency |-> (k - 1) * SlowBinHz,
              amplitude |-> IF (k - 1) * SlowBinHz \in SlowLines
                                THEN amps[(k - 1) * SlowBinHz] ELSE 0]] :
         amps \in [SlowLines -> SlowAmps]}

\* One classification: a machine at 48, 60 or 240 rpm (fmax 9.6, 12 and
\* 48 Hz) and one of its spectra.
ClassifyCalls ==
    UNION {[spectrum : SlowSpectra(r), rpm : {r}, machine_class : {"I"}] : r \in {48, 60, 240}}

\* Local variables of a handler before it starts.
Fresh ==
    /\ pc = "start"
    /\ axis_i = 0
    /\ axis_results = <<>>
    /\ rpm = None
    /\ sample_rate = None
    /\ overall_severity = None
    /\ overall_diagnosis = None
    /\ all_evidence = <<>>
    /\ max_harmonic_count = 0
    /\ worst_severity = None
    /\ fft_data = None
    /\ invoked = <<>>
    /\ calls = <<>>
    /\ response = None

Init ==
    /\ \/ handler = "get_fft_analysis" /\ request \in Requests
       \/ handler = "prepare_report_data" /\ request \in Requests
       \/ handler = "perform_complete_analysis" /\ request \in Calls
       \/ handler = "diagnose_bearing_fault" /\ request \in Diagnoses
       \/ handler = "find_peak_in_band" /\ request \in PeakCalls
       \/ handler = "perform_enhanced_diagnosis" /\ request \in EnhancedCalls
       \/ handler = "sanitize_dict" /\ request \in SanitizeCalls
       \/ handler = "harmonic_pipeline" /\ request \in PipelineCalls
       \/ handler = "velocity_blocks" /\ request \in BlockCalls
       \/ handler = "output_spectrum" /\ request \in BinCounts
       \/ handler = "classify_velocity" /\ request \in ClassifyCalls
    /\ run = 1
    /\ hashseed = 0
    /\ first_response = None
    /\ Fresh

--------------------------------------------------------------------------
(* Python dicts keyed by axis, kept as the sequence of their items in      *)
(* insertion order: <<[key |-> k, value |-> v], ...>>.                     *)

DictHas(d, k) == \E i \in DOMAIN d : d[i].key = k

\* position and value of key k
DictIndex(d, k) == CHOOSE i \in DOMAIN d : d[i].key = k

DictGet(d, k) == d[DictIndex(d, k)].value

\* A variant that rebinds the dict to the one new item (d = {k: v}).
DictSetRebind(d, k, v) == << [key |-> k, value |-> v] >>

\* d[k] = v: an existing key keeps its place, a new one goes last.
DictSet(d, k, v) ==
    IF DictHas(d, k)
        THEN [d EXCEPT ![DictIndex(d, k)] = [key |-> k, value |-> v]]
        ELSE Append(d, [key |-> k, value |-> v])

--------------------------------------------------------------------------
(* routers/machines.py: get_fft_analysis.                                  *)

\* The sample rate used when the SR field is missing or unparsable.
DefaultSampleRate == 10000

\* f'API error: {response.status_code}'
ApiErrorText(status) ==
    CASE status = 404 -> "API error: 404"
      [] status = 500 -> "API error: 500"
      [] status = 503 -> "API error: 503"

Unavailable(error) == [available |-> FALSE, error |-> error]

\* "if axis_sr: try float(axis_sr) except: 10000.0 / else: 10000.0"
ParseSampleRate(axis_sr) ==
    IF Truthy(axis_sr) /\ axis_sr.kind = "num" THEN axis_sr.val ELSE DefaultSampleRate

\* "if axis_rpm: try rpm = float(axis_rpm) except: pass": the variable rpm
\* of the handler keeps its previous value when the field is falsy or
\* does not parse.
ParseRpm(axis_rpm, rpm_before) ==
    IF Truthy(axis_rpm) /\ axis_rpm.kind = "num" THEN Some(axis_rpm.val) ELSE rpm_before

\* One pass through the body of "for axis in axes": the entry stored in
\* axis_results[axis], the handler's rpm and sample_rate after the pass,
\* and the call of perform_complete_analysis made, if any.
ProcessAxis(resp, axis, rpm_before, sample_rate_before, machine_class) ==
    IF resp.status # 200
        THEN [entry       |-> Unavailable(ApiErrorText(resp.status)),
              rpm         |-> rpm_before,
              sample_rate |-> sample_rate_before,
              call        |-> None]
    \* len(data.get('rawData', [])) of the log line raises TypeError on a
    \* null rawData, before anything is parsed
    ELSE IF resp.rawData.kind = "null"
        THEN [entry       |-> Unavailable("object of type 'NoneType' has no len()"),
              rpm         |-> rpm_before,
              sample_rate |-> sample_rate_before,
              call        |-> None]
    ELSE
    LET raw_data == resp.rawData
        sr       == ParseSampleRate(resp.SR)
        rpm_now  == ParseRpm(resp.rpm, rpm_before)
        Out(entry, call) ==
            [entry |-> entry, rpm |-> rpm_now, sample_rate |-> Some(sr), call |-> call]
    IN  \* not raw_data or len(raw_data) < 100
        IF raw_data.len = 0 \/ raw_data.len < MinSamples
            THEN Out(Unavailable("Insufficient vibration data"), None)
        \* not rpm or rpm <= 0
        ELSE IF rpm_now = None \/ Val(rpm_now) = 0 \/ Val(rpm_now) <= 0
            THEN Out(Unavailable("RPM not available - cannot analyze"), None)
        \* float(x.strip()) on a piece of a string raises ValueError, which
        \* the axis' except clause records
        ELSE IF raw_data.kind = "str" /\ raw_data.junk > 0
            THEN Out(Unavailable("could not convert string to float"), None)
        ELSE
        \* list elements that do not convert are skipped
        LET parsed == [n |-> raw_data.items - raw_data.junk, sig |-> raw_data.sig]
        IN  IF parsed.n < MinSamples
                THEN Out(Unavailable("Insufficient valid data points after parsing"), None)
            ELSE
            LET analysis == perform_complete_analysis(
                                parsed, sr, rpm_now, AxisShort(axis), machine_class)
                call     == Some([axis |-> axis, rpm |-> rpm_now, returned |-> analysis])
            IN  IF analysis.raised # None
                    \* except Exception as axis_err: 'error': str(axis_err)
                    THEN Out(Unavailable(Val(analysis.raised)), call)
                    \* {'available': True, **analysis}
                    ELSE Out([available |-> TRUE, analysis |-> analysis.result], call)

\* One iteration of "for axis in axes".
FetchAxis ==
    /\ handler = "get_fft_analysis"
    /\ pc = "start"
    /\ axis_i < Len(axes)
    /\ \E out \in {ProcessAxis(request.responses[axis_i + 1], axes[axis_i + 1],
                                rpm, sample_rate, request.machine_class)} :
           /\ axis_results' = DictSet(axis_results, axes[axis_i + 1], out.entry)
           /\ rpm' = out.rpm
           /\ sample_rate' = out.sample_rate
           /\ calls' = IF out.call = None THEN calls ELSE Append(calls, Val(out.call))
    /\ axis_i' = axis_i + 1
    /\ pc' = IF axis_i + 1 = Len(axes) THEN "severity" ELSE "start"
    /\ UNCHANGED << handler, request, run, overall_severity, overall_diagnosis,
                    all_evidence, max_harmonic_count, hashseed, worst_severity,
                    fft_data, invoked, response, first_response >>

\* A variant in which the last entry wins a tie (>= instead of >).
WorstSeverityLastWins(results, k, overall) ==
    LET avail   == {i \in k..Len(results) : results[i].value.available}
        Zone(i) == SeverityIndex(results[i].value.analysis.severity.zone)
    IN  IF avail = {} THEN overall
        ELSE LET last == CHOOSE i \in avail :
                             \A j \in avail :
                                 Zone(j) < Zone(i) \/ (Zone(j) = Zone(i) /\ j <= i)
             IN  results[last].value.analysis.severity

\* "for axis, result in axis_results.items()": the worst zone, the first
\* entry winning a tie.
RECURSIVE WorstSeverityFrom(_, _, _)
WorstSeverityFrom(results, k, overall) ==
    IF k > Len(results) THEN overall
    ELSE LET result == results[k].value
         IN  IF result.available
                 THEN LET severity == result.analysis.severity
                      IN  IF overall = None
                              THEN WorstSeverityFrom(results, k + 1, severity)
                          ELSE IF SeverityIndex(severity.zone) > SeverityIndex(overall.zone)
                              THEN WorstSeverityFrom(results, k + 1, severity)
                          ELSE WorstSeverityFrom(results, k + 1, overall)
                 ELSE WorstSeverityFrom(results, k + 1, overall)

OverallSeverity ==
    /\ handler = "get_fft_analysis"
    /\ pc = "severity"
    /\ overall_severity' = WorstSeverityFrom(axis_results, 1, None)
    /\ pc' = "diagnosis"
    /\ UNCHANGED << handler, request, run, axis_i, axis_results, rpm, sample_rate,
                    overall_diagnosis, all_evidence, max_harmonic_count, hashseed,
                    worst_severity, fft_data, invoked, calls, response, first_response >>

\* Every evidence string diagnose_bearing_fault can produce.
EvidenceCatalogue ==
    << "Dominant 1x running frequency peak",
       "Low harmonic content",
       "Elevated 2x harmonic relative to 1x",
       "Elevated axial vibration",
       "Significant higher harmonic content (3x and above)",
       "Low overall vibration levels",
       "No specific fault indicators detected" >>
    \o [n \in 1..7 |-> EvMultipleHarmonics(n + 3)]
    \o [n \in 1..4 |-> EvElectrical(n + 1)]

\* Size of the hash table the slots below are taken in (a prime above the
\* number of catalogue entries).
HashModulus == 19

\* The slot a string hashes to under the interpreter's hash seed: str
\* hashes are keyed by a per-process seed, so each seed gives its own
\* arrangement of the same strings.
HashSlot(e, seed) ==
    LET idx == CHOOSE i \in DOMAIN EvidenceCatalogue : EvidenceCatalogue[i] = e
    IN  (idx * (seed + 1)) % HashModulus

\* A variant without the set: list(items).
ListKeepingDuplicates(items, seed) == items

\* list(set(items)): the distinct strings, in the order the set iterates
\* them, which is the order of their hash slots.
ListOfSet(items, seed) ==
    LET S == Range(items)
    IN  [k \in 1..Cardinality(S) |->
            CHOOSE e \in S :
                Cardinality({d \in S : HashSlot(d, seed) < HashSlot(e, seed)}) = k - 1]

\* items[:n]
Take(items, n) == SubSeq(items, 1, Min2(n, Len(items)))

\* The cap on the merged evidence list.
MaxEvidence == 5

\* The second loop over axis_results.items(): all_evidence,
\* max_harmonic_count and the axis whose diagnosis overall_diagnosis
\* refers to, after the items from k on.
RECURSIVE DiagnosisFrom(_, _, _)
DiagnosisFrom(results, k, acc) ==
    IF k > Len(results) THEN acc
    ELSE LET result == results[k].value
         IN  IF ~ result.available THEN DiagnosisFrom(results, k + 1, acc)
             ELSE
             LET diag == result.analysis.diagnosis
                 kept == IF acc.overall_diagnosis = None THEN None
                         ELSE DictGet(results, Val(acc.overall_diagnosis)).analysis.diagnosis
             IN  DiagnosisFrom(results, k + 1,
                     [all_evidence       |-> acc.all_evidence \o diag.evidence,
                      max_harmonic_count |-> Max2(acc.max_harmonic_count, diag.harmonicCount),
                      overall_diagnosis  |->
                          IF kept = None THEN Some(results[k].key)
                          ELSE IF diag.confidence = "High" /\ kept.confidence # "High"
                              THEN Some(results[k].key)
                          ELSE acc.overall_diagnosis])

\* overall_diagnosis['evidence'] = list(set(all_evidence))[:5] and
\* overall_diagnosis['harmonicCount'] = max_harmonic_count.  The dict
\* written to is the diagnosis dict of the chosen axis' entry itself:
\* overall_diagnosis was bound to it, not to a copy.
WriteOverallDiagnosis(results, chosen, evidence, harmonic_count) ==
    IF chosen = None THEN results
    ELSE [results EXCEPT
              ![DictIndex(results, Val(chosen))].value.analysis.diagnosis.evidence = evidence,
              ![DictIndex(results, Val(chosen))].value.analysis.diagnosis.harmonicCount =
                  harmonic_count]

OverallDiagnosis ==
    /\ handler = "get_fft_analysis"
    /\ pc = "diagnosis"
    /\ \E seed \in 0..(NSeeds - 1),
          acc \in {DiagnosisFrom(axis_results, 1,
                       [all_evidence |-> <<>>, max_harmonic_count |-> 0,
                        overall_diagnosis |-> None])} :
             /\ hashseed' = seed
             /\ all_evidence' = acc.all_evidence
             /\ max_harmonic_count' = acc.max_harmonic_count
             /\ overall_diagnosis' = acc.overall_diagnosis
             /\ axis_results' =
                    WriteOverallDiagnosis(axis_results, acc.overall_diagnosis,
                        Take(ListOfSet(acc.all_evidence, seed), MaxEvidence),
                        acc.max_harmonic_count)
    /\ pc' = "return"
    /\ UNCHANGED << handler, request, run, axis_i, rpm, sample_rate, overall_severity,
                    worst_severity, fft_data, invoked, calls, response, first_response >>

\* The dict returned to the client (identifiers and the external status,
\* which no step above reads, left out).
Return ==
    /\ handler = "get_fft_analysis"
    /\ pc = "return"
    /\ response' =
           [success          |-> TRUE,
            machineClass     |-> request.machine_class,
            rpm              |-> rpm,
            sampleRate       |-> sample_rate,
            axisData         |-> axis_results,
            overallSeverity  |-> overall_severity,
            overallDiagnosis |->
                IF overall_diagnosis = None THEN None
                ELSE DictGet(axis_results, Val(overall_diagnosis)).analysis.diagnosis]
    /\ first_response' = IF run = 1 THEN response' ELSE first_response
    /\ pc' = "done"
    /\ UNCHANGED << handler, request, run, axis_i, axis_results, rpm, sample_rate,
                    overall_severity, overall_diagnosis, all_evidence,
                    max_harmonic_count, hashseed, worst_severity, fft_data, invoked,
                    calls >>

\* The same request arrives again: the handler starts over with fresh
\* locals.
Rerun ==
    /\ handler = "get_fft_analysis"
    /\ pc = "done"
    /\ run < MaxRuns
    /\ run' = run + 1
    /\ pc' = "start"
    /\ axis_i' = 0
    /\ axis_results' = <<>>
    /\ rpm' = None
    /\ sample_rate' = None
    /\ overall_severity' = None
    /\ overall_diagnosis' = None
    /\ all_evidence' = <<>>
    /\ max_harmonic_count' = 0
    /\ calls' = <<>>
    /\ response' = None
    /\ hashseed' = 0
    /\ UNCHANGED << handler, request, worst_severity, fft_data, invoked,
                    first_response >>

--------------------------------------------------------------------------
(* services/report_service.py: prepare_report_data, for one bearing.       *)

\* The body of "for axis in axes" of the report: the entry stored in
\* axisData[axis_short], or the exception that escapes the handler.
ReportAxis(resp, axis, machine_class) ==
    \* fetch_bearing_data_for_report returns None unless the status is 200
    IF resp.status # 200
        THEN [raised |-> None, entry |-> Unavailable("Failed to fetch data from API")]
    ELSE
    LET raw_data == resp.rawData
        \* raw_response.get('SR', 10000); float(sample_rate), 10000.0 on error
        sr       == IF resp.SR.kind = "num" THEN resp.SR.val ELSE DefaultSampleRate
        \* float(rpm) if rpm else None; None on error
        rpm_axis == IF Truthy(resp.rpm) /\ resp.rpm.kind = "num"
                        THEN Some(resp.rpm.val) ELSE None
    IN  \* the pieces of a string are converted outside any try block
        IF raw_data.kind = "str" /\ raw_data.junk > 0
            THEN [raised |-> Some("could not convert string to float")]
        ELSE
        LET parsed == [n |-> raw_data.items - raw_data.junk, sig |-> raw_data.sig]
        IN  IF parsed.n >= MinSamples /\ rpm_axis # None /\ Val(rpm_axis) > 0
                THEN LET analysis == perform_complete_analysis(
                                         parsed, sr, rpm_axis, AxisShort(axis), machine_class)
                     IN  IF analysis.raised # None
                             THEN [raised |-> None,
                                   entry  |-> Unavailable(Val(analysis.raised))]
                             ELSE [raised |-> None,
                                   entry  |->
                                       [available   |-> TRUE,
                                        rpm         |-> Val(rpm_axis),
                                        sampleRate  |-> sr,
                                        velocityRMS |-> analysis.result.severity.velocityRMS,
                                        severity    |-> analysis.result.severity,
                                        diagnosis   |-> analysis.result.diagnosis,
                                        harmonics   |-> analysis.result.harmonics,
                                        peakAt1x    |-> analysis.result.peakAt1x]]
            ELSE IF parsed.n < MinSamples
                THEN [raised |-> None,
                      entry  |-> Unavailable("No data available for this axis")]
            ELSE [raised |-> None, entry |-> Unavailable("Missing RPM value")]

ReportFetchAxis ==
    /\ handler = "prepare_report_data"
    /\ pc = "start"
    /\ axis_i < Len(axes)
    /\ \E out \in {ReportAxis(request.responses[axis_i + 1], axes[axis_i + 1],
                               request.machine_class)} :
           IF out.raised # None
               THEN /\ response' = [raised |-> out.raised]
                    /\ pc' = "done"
                    /\ UNCHANGED axis_results
               ELSE /\ axis_results' =
                           DictSet(axis_results, AxisShort(axes[axis_i + 1]), out.entry)
                    /\ pc' = IF axis_i + 1 = Len(axes) THEN "severity" ELSE "start"
                    /\ UNCHANGED response
    /\ axis_i' = axis_i + 1
    /\ UNCHANGED << handler, request, run, rpm, sample_rate, overall_severity,
                    overall_diagnosis, all_evidence, max_harmonic_count, hashseed,
                    worst_severity, fft_data, invoked, calls, first_response >>

\* worst_severity = 'A', then the loop over axisData.items().
RECURSIVE ReportWorstFrom(_, _, _)
ReportWorstFrom(results, k, worst) ==
    IF k > Len(results) THEN worst
    ELSE LET axis_data == results[k].value
         IN  IF axis_data.available
                /\ SeverityIndex(axis_data.severity.zone) > SeverityIndex(worst)
                 THEN ReportWorstFrom(results, k + 1, axis_data.severity.zone)
                 ELSE ReportWorstFrom(results, k + 1, worst)

ReportSeverity ==
    /\ handler = "prepare_report_data"
    /\ pc = "severity"
    /\ \E worst \in {ReportWorstFrom(axis_results, 1, "A")} :
           /\ worst_severity' = Some(worst)
           /\ response' = [raised               |-> None,
                           axisData             |-> axis_results,
                           overallSeverity      |-> worst,
                           overallSeverityLabel |-> ZONE_LABELS[worst]]
    /\ pc' = "done"
    /\ UNCHANGED << handler, request, run, axis_i, axis_results, rpm, sample_rate,
                    overall_severity, overall_diagnosis, all_evidence,
                    max_harmonic_count, hashseed, fft_data, invoked, calls,
                    first_response >>

--------------------------------------------------------------------------
(* perform_complete_analysis called on its own, stage by stage.            *)

Validate ==
    /\ handler = "perform_complete_analysis"
    /\ pc = "start"
    /\ invoked' = Append(invoked, "validate")
    /\ \E invalid \in {ValidateInputs(request.raw_data.n, request.sample_rate,
                                       request.rpm)} :
           IF invalid # None
               THEN /\ response' = [raised |-> invalid]
                    /\ pc' = "done"
               ELSE /\ UNCHANGED response
                    /\ pc' = "velocity_convert"
    /\ UNCHANGED << handler, request, run, axis_i, axis_results, rpm, sample_rate,
                    overall_severity, overall_diagnosis, all_evidence,
                    max_harmonic_count, hashseed, worst_severity, fft_data, calls,
                    first_response >>

VelocityConvert ==
    /\ handler = "perform_complete_analysis"
    /\ pc = "velocity_convert"
    /\ invoked' = Append(invoked, "velocity_convert")
    /\ fft_data' = velocity_convert(request.raw_data.sig, request.sample_rate,
                                    Fmax60(request.sample_rate, Val(request.rpm)))
    /\ pc' = "analyse"
    /\ UNCHANGED << handler, request, run, axis_i, axis_results, rpm, sample_rate,
                    overall_severity, overall_diagnosis, all_evidence,
                    max_harmonic_count, hashseed, worst_severity, calls, response,
                    first_response >>

Analyse ==
    /\ handler = "perform_complete_analysis"
    /\ pc = "analyse"
    /\ invoked' = invoked \o <<"find_peak_in_band", "detect_harmonics",
                               "detect_fixed_frequencies", "get_iso_severity_zone",
                               "diagnose_bearing_fault">>
    /\ response' = [raised |-> None,
                    result |-> AnalyseSpectrum(fft_data, request.raw_data.n,
                                   request.sample_rate, Val(request.rpm),
                                   request.axis, request.machine_class)]
    /\ pc' = "done"
    /\ UNCHANGED << handler, request, run, axis_i, axis_results, rpm, sample_rate,
                    overall_severity, overall_diagnosis, all_evidence,
                    max_harmonic_count, hashseed, worst_severity, fft_data, calls,
                    first_response >>

--------------------------------------------------------------------------
(* The pure functions called on their own.                                 *)

Diagnose ==
    /\ handler = "diagnose_bearing_fault"
    /\ pc = "start"
    /\ response' = diagnose_bearing_fault(request.harmonics, request.fixed_freq_peaks)
    /\ pc' = "done"
    /\ UNCHANGED << handler, request, run, axis_i, axis_results, rpm, sample_rate,
                    overall_severity, overall_diagnosis, all_evidence,
                    max_harmonic_count, hashseed, worst_severity, fft_data, invoked,
                    calls, first_response >>

FindPeak ==
    /\ handler = "find_peak_in_band"
    /\ pc = "start"
    /\ response' = find_peak_in_band(request.spectrum, request.center60)
    /\ pc' = "done"
    /\ UNCHANGED << handler, request, run, axis_i, axis_results, rpm, sample_rate,
                    overall_severity, overall_diagnosis, all_evidence,
                    max_harmonic_count, hashseed, worst_severity, fft_data, invoked,
                    calls, first_response >>

EnhancedDiagnose ==
    /\ handler = "perform_enhanced_diagnosis"
    /\ pc = "start"
    /\ response' = perform_enhanced_diagnosis(request.rpm, request.harmonics,
                        request.running_freq, request.severity_zone, request.velocity_rms)
    /\ pc' = "done"
    /\ UNCHANGED << handler, request, run, axis_i, axis_results, rpm, sample_rate,
                    overall_severity, overall_diagnosis, all_evidence,
                    max_harmonic_count, hashseed, worst_severity, fft_data, invoked,
                    calls, first_response >>

Sanitize ==
    /\ handler = "sanitize_dict"
    /\ pc = "start"
    /\ response' = sanitize_dict(request)
    /\ pc' = "done"
    /\ UNCHANGED << handler, request, run, axis_i, axis_results, rpm, sample_rate,
                    overall_severity, overall_diagnosis, all_evidence,
                    max_harmonic_count, hashseed, worst_severity, fft_data, invoked,
                    calls, first_response >>

Pipeline ==
    /\ handler = "harmonic_pipeline"
    /\ pc = "start"
    /\ response' = harmonic_pipeline(request.spectrum, request.rpm)
    /\ pc' = "done"
    /\ UNCHANGED << handler, request, run, axis_i, axis_results, rpm, sample_rate,
                    overall_severity, overall_diagnosis, all_evidence,
                    max_harmonic_count, hashseed, worst_severity, fft_data, invoked,
                    calls, first_response >>

AverageBlocks ==
    /\ handler = "velocity_blocks"
    /\ pc = "start"
    /\ \E slack \in [1..num_blocks -> {0, 1}] :
           /\ \A k \in 1..num_blocks :
                  slack[k] = 1 =>
                      MayRoundDown(k - 1, overlappingPercentage(request.n),
                                   blockSize(request.highResolution, request.n))
           /\ response' = velocity_blocks(request.n, request.highResolution, slack)
    /\ pc' = "done"
    /\ UNCHANGED << handler, request, run, axis_i, axis_results, rpm, sample_rate,
                    overall_severity, overall_diagnosis, all_evidence,
                    max_harmonic_count, hashseed, worst_severity, fft_data, invoked,
                    calls, first_response >>

OutputSpectrum ==
    /\ handler = "output_spectrum"
    /\ pc = "start"
    /\ response' = output_spectrum(request)
    /\ pc' = "done"
    /\ UNCHANGED << handler, request, run, axis_i, axis_results, rpm, sample_rate,
                    overall_severity, overall_diagnosis, all_evidence,
                    max_harmonic_count, hashseed, worst_severity, fft_data, invoked,
                    calls, first_response >>

ClassifyVelocity ==
    /\ handler = "classify_velocity"
    /\ pc = "start"
    /\ response' = classify_velocity(request.spectrum, request.rpm, request.machine_class)
    /\ pc' = "done"
    /\ UNCHANGED << handler, request, run, axis_i, axis_results, rpm, sample_rate,
                    overall_severity, overall_diagnosis, all_evidence,
                    max_harmonic_count, hashseed, worst_severity, fft_data, invoked,
                    calls, first_response >>

--------------------------------------------------------------------------

Next ==
    \/ FetchAxis
    \/ OverallSeverity
    \/ OverallDiagnosis
    \/ Return
    \/ Rerun
    \/ ReportFetchAxis
    \/ ReportSeverity
    \/ Validate
    \/ VelocityConvert
    \/ Analyse
    \/ Diagnose
    \/ FindPeak
    \/ EnhancedDiagnose
    \/ Sanitize
    \/ Pipeline
    \/ AverageBlocks
    \/ OutputSpectrum
    \/ ClassifyVelocity

Spec == Init /\ [][Next]_vars

--------------------------------------------------------------------------
(* Vocabulary of the properties.                                           *)

\* Positions of axis_results whose entry is marked available.
AvailableIdx == {i \in DOMAIN axis_results : axis_results[i].value.available}

\* An RPM field that is missing, unparsable or non-positive.
InvalidRpmField(field) ==
    field.kind \in {"missing", "text"} \/ (field.kind = "num" /\ field.val <= 0)

\* An answer that by itself can be analysed: status 200, at least 100
\* samples that all parse, a positive RPM, a usable sample rate.
GoodResponse(resp) ==
    /\ resp.status = 200
    /\ resp.rawData.kind = "list"
    /\ resp.rawData.len >= MinSamples
    /\ resp.rawData.items - resp.rawData.junk >= MinSamples
    /\ resp.rpm.kind = "num" /\ resp.rpm.val > 0
    /\ (resp.SR.kind = "num" => resp.SR.val >= 0)

ConfidenceRank(confidence) ==
    CASE confidence = "Low"    -> 0
      [] confidence = "Medium" -> 1
      [] confidence = "High"   -> 2

\* The upper thresholds of zones A, B, C per class, as tabulated in
\* section 4.4 of the specification, in units of 0.01 mm/s.
Table44 ==
    [ I   |-> <<71, 180, 450>>,
      II  |-> <<112, 280, 710>>,
      III |-> <<180, 450, 1120>>,
      IV  |-> <<280, 710, 1800>> ]

ClassUsed(machine_class) ==
    IF machine_class \in {"I", "II", "III", "IV"} THEN machine_class ELSE "II"

\* The lowest zone whose upper threshold is >= rms: one zone up for every
\* threshold strictly below rms.
LowestZone(rms, class) ==
    severity_order[1 + Cardinality({k \in 1..3 : Table44[class][k] < rms})]

\* A direct call of perform_complete_analysis that returned a result.
DirectResult ==
    /\ handler = "perform_complete_analysis"
    /\ pc = "done"
    /\ response.raised = None

--------------------------------------------------------------------------
(* C1: for every machine class and every velocity RMS value the zone       *)
(* returned by get_iso_severity_zone is the lowest zone whose upper        *)
(* threshold in the table of section 4.4 is >= RMS (D above the C          *)
(* threshold), the zone never decreases when RMS increases, and a class    *)
(* outside I..IV is classified with the class II thresholds.               *)
C1_IsoZoneMatchesTable ==
    DirectResult =>
        LET severity == response.result.severity
            class    == ClassUsed(request.machine_class)
            rms      == VelocityRms(fft_data, Val(request.rpm))
        IN  /\ severity.machineClass = class
            /\ severity.zone = LowestZone(rms, class)
            /\ \A lower \in BoundaryRms :
                   lower <= rms =>
                       SeverityIndex(get_iso_severity_zone(lower, request.machine_class).zone)
                           <= SeverityIndex(severity.zone)

\* An unrecognised class, an RMS just above the class II zone A threshold.
C1_Witness ==
    /\ DirectResult
    /\ request.machine_class = "V"
    /\ VelocityRms(fft_data, Val(request.rpm)) = Table44.II[1] + 1
    /\ response.result.severity.zone = "B"

--------------------------------------------------------------------------
\* The calls of perform_complete_analysis that returned an analysis.
Analysed == {i \in DOMAIN calls : calls[i].returned.raised = None}

\* Entries of axis_results stored under the key of axes[k].
EntriesOf(k) == {i \in DOMAIN axis_results : axis_results[i].key = axes[k]}

C3_InvalidRpmNeverAnalysed ==
    handler = "get_fft_analysis" =>
        \A k \in 1..axis_i :
            (request.responses[k].status = 200
             /\ InvalidRpmField(request.responses[k].rpm)) =>
                /\ ~ DictGet(axis_results, axes[k]).available
                /\ \A i \in DOMAIN calls : calls[i].axis # axes[k]

(* C4: perform_complete_analysis called with rpm <= 0 or None raises the   *)
(* invalid-RPM error before velocity_convert or any other stage is         *)
(* invoked, also when the data has fewer than 100 samples or the sample    *)
(* rate is invalid too.                                                    *)
C4_RpmCheckedFirst ==
    (handler = "perform_complete_analysis"
     /\ (request.rpm = None \/ Val(request.rpm) <= 0)) =>
        /\ Range(invoked) \subseteq {"validate"}
        /\ fft_data = None
        /\ pc \in {"start", "done"}
        /\ pc = "done" => response = [raised |-> Some("Valid RPM is required for analysis")]

\* rpm = 0 together with 50 samples and a zero sample rate.
C4_Witness ==
    /\ handler = "perform_complete_analysis"
    /\ pc = "done"
    /\ request.rpm = Some(0)
    /\ request.raw_data.n < MinSamples
    /\ request.sample_rate = 0
    /\ response.raised = Some("Valid RPM is required for analysis")

(* C5: the aggregator never modifies a per-axis analysis after it was      *)
(* built: what axis_results holds for an analysed axis is what             *)
(* perform_complete_analysis returned for it.                              *)
C5_AxisAnalysisUnchanged ==
    handler = "get_fft_analysis" =>
        \A i \in Analysed :
            LET entry == DictGet(axis_results, calls[i].axis)
            IN  entry.available /\ entry.analysis = calls[i].returned.result

\* The first position whose rank is the highest; rank is a function from
\* positions to numbers.
FirstBest(rank) ==
    CHOOSE i \in DOMAIN rank :
        \A j \in DOMAIN rank : rank[j] < rank[i] \/ (rank[j] = rank[i] /\ i <= j)

(* C6: the overall severity is the severity of the worst zone (A < B < C   *)
(* < D) among the available axes, the first one processed being kept when  *)
(* two axes share the worst zone; in the report the overall zone of a      *)
(* bearing with an available axis is the worst zone among them.            *)
C6_OverallSeverityIsWorst ==
    /\ (handler = "get_fft_analysis" /\ pc \in {"diagnosis", "return", "done"}) =>
           LET zone == [i \in AvailableIdx |->
                           SeverityIndex(axis_results[i].value.analysis.severity.zone)]
           IN  /\ IF AvailableIdx = {} THEN overall_severity = None
                   ELSE overall_severity =
                            axis_results[FirstBest(zone)].value.analysis.severity
               /\ pc = "done" => response.overallSeverity = overall_severity
    /\ (handler = "prepare_report_data" /\ pc = "done"
        /\ response.raised = None /\ AvailableIdx # {}) =>
           LET zone == [i \in AvailableIdx |->
                           SeverityIndex(axis_results[i].value.severity.zone)]
           IN  response.overallSeverity =
                   axis_results[FirstBest(zone)].value.severity.zone

\* H unavailable, V and A both in the worst zone with different RMS values:
\* V's severity is the overall one.
C6_Witness ==
    /\ handler = "get_fft_analysis"
    /\ pc = "done"
    /\ AvailableIdx = {2, 3}
    /\ axis_results[2].value.analysis.severity.zone
           = axis_results[3].value.analysis.severity.zone
    /\ axis_results[2].value.analysis.severity # axis_results[3].value.analysis.severity
    /\ response.overallSeverity = axis_results[2].value.analysis.severity

(* C7: when every axis is unavailable the aggregator reports no zone: not  *)
(* zone A nor any other, in get_fft_analysis and in prepare_report_data.   *)
C7_NoZoneWithoutAvailableAxis ==
    (pc = "done" /\ Len(axis_results) = Len(axes) /\ AvailableIdx = {}) =>
        /\ handler = "get_fft_analysis" => response.overallSeverity = None
        /\ handler = "prepare_report_data" =>
               response.overallSeverity \notin Range(severity_order)

(* C8: the overall diagnosis is the diagnosis with the highest confidence  *)
(* (Low < Medium < High) among the available axes, the first axis in the   *)
(* order H, V, A being kept when several share it.                         *)
C8_OverallDiagnosisIsMostConfident ==
    (handler = "get_fft_analysis" /\ pc \in {"return", "done"} /\ AvailableIdx # {}) =>
        LET rank == [i \in AvailableIdx |->
                        ConfidenceRank(axis_results[i].value.analysis.diagnosis.confidence)]
        IN  overall_diagnosis = Some(axis_results[FirstBest(rank)].key)

\* What the analysed axes reported before the aggregation.
ReportedEvidence ==
    UNION {Range(calls[i].returned.result.diagnosis.evidence) : i \in Analysed}

ReportedHarmonicCounts ==
    {calls[i].returned.result.diagnosis.harmonicCount : i \in Analysed}

(* C9: the evidence list of the overall diagnosis has no duplicates, at    *)
(* most 5 entries, and only strings that occur in the evidence of an       *)
(* available axis; its harmonic count is the maximum harmonic count among  *)
(* the available axes.                                                     *)
C9_MergedEvidence ==
    (handler = "get_fft_analysis" /\ pc = "done" /\ response.overallDiagnosis # None) =>
        LET evidence == response.overallDiagnosis.evidence
        IN  /\ Cardinality(Range(evidence)) = Len(evidence)
            /\ Len(evidence) <= 5
            /\ Range(evidence) \subseteq ReportedEvidence
            /\ response.overallDiagnosis.harmonicCount \in ReportedHarmonicCounts
            /\ \A n \in ReportedHarmonicCounts :
                   n <= response.overallDiagnosis.harmonicCount

\* Two analysed axes that share an evidence string and report more than
\* five distinct ones between them: the merged list is cut to five.
C9_Witness ==
    /\ handler = "get_fft_analysis"
    /\ pc = "done"
    /\ Cardinality(Analysed) >= 2
    /\ \E i, j \in Analysed :
           /\ i # j
           /\ Range(calls[i].returned.result.diagnosis.evidence)
                  \cap Range(calls[j].returned.result.diagnosis.evidence) # {}
           /\ calls[i].returned.result.diagnosis.harmonicCount
                  < calls[j].returned.result.diagnosis.harmonicCount
    /\ Cardinality(ReportedEvidence) > 5
    /\ Len(response.overallDiagnosis.evidence) = 5

(* C10: running get_fft_analysis twice on identical inputs yields          *)
(* identical output, the order and the selection of the merged evidence    *)
(* included.                                                               *)
C10_SameInputsSameOutput ==
    (handler = "get_fft_analysis" /\ pc = "done" /\ run >= 2) =>
        response = first_response

--------------------------------------------------------------------------
\* The spectrum of a direct call has amplitude 0 in every bin.
ZeroSpectrum == \A i \in DOMAIN fft_data : fft_data[i].amplitude = 0

(* C11: for an input whose spectrum is all-zero (every harmonic and fixed  *)
(* frequency peak found has amplitude 0) perform_complete_analysis returns *)
(* severity zone A and the diagnosis 'Normal'.                             *)
C11_ZeroSpectrumIsNormal ==
    (DirectResult /\ ZeroSpectrum) =>
        /\ response.result.severity.zone = "A"
        /\ response.result.diagnosis.faultType = "Normal"

--------------------------------------------------------------------------
\* A harmonic list whose only content is the 1x peak: its amplitude is
\* positive and every other harmonic is below 10% of it.
OnlyFirstOrder(harmonics) ==
    /\ AmpOfOrder(harmonics, 1) > 0
    /\ \A i \in DOMAIN harmonics :
           harmonics[i].harmonic # 1 =>
               harmonics[i].amplitude * 10 < AmpOfOrder(harmonics, 1)

UnbalanceHigh(diagnosis) ==
    /\ diagnosis.harmonicCount <= 2
    /\ diagnosis.faultType = "Unbalance"
    /\ diagnosis.confidence = "High"

\* diagnose_bearing_fault called on its own has returned.
DiagnoseDone == handler = "diagnose_bearing_fault" /\ pc = "done"

(* C12: for a spectrum whose only content is a peak at the 1x running      *)
(* frequency (amplitude > 0 at 1x, every other harmonic below 10% of it)   *)
(* the diagnosis has at most 2 significant harmonics and reports           *)
(* 'Unbalance' with High confidence, whatever the number of fixed          *)
(* frequency peaks found.                                                  *)
C12_SinglePeakIsUnbalance ==
    /\ (DiagnoseDone /\ OnlyFirstOrder(request.harmonics)) => UnbalanceHigh(response)
    /\ (DirectResult /\ OnlyFirstOrder(response.result.harmonics)) =>
           UnbalanceHigh(response.result.diagnosis)

\* A 1x peak of 1.2 mm/s, four more harmonics of which one reaches 0.05
\* mm/s, five fixed frequency peaks.
C12_Witness ==
    /\ DiagnoseDone
    /\ Len(request.harmonics) = 5
    /\ OnlyFirstOrder(request.harmonics)
    /\ \E i \in DOMAIN request.harmonics : request.harmonics[i].amplitude = 5
    /\ Len(request.fixed_freq_peaks) = 5
    /\ UnbalanceHigh(response)

--------------------------------------------------------------------------
\* The faults other than Normal.
SpecificFaults == Range(FaultOrder) \ {"Normal"}

\* The claim of C19 about one call: the harmonics and fixed frequency peaks
\* passed in, and the diagnosis returned.
NamesFaultThatFired(harmonics, fixed_freq_peaks, diagnosis) ==
    LET fault_scores == FaultScores(harmonics, fixed_freq_peaks)
    IN  /\ diagnosis.faultType \in Range(FaultOrder)
        /\ (\A f \in SpecificFaults : fault_scores[f] = 0) =>
               diagnosis.faultType = "Normal"
        /\ diagnosis.faultType # "Normal" => fault_scores[diagnosis.faultType] > 0

(* C19: diagnose_bearing_fault always names a fault, names 'Normal'        *)
(* whenever every fault score (Unbalance, Misalignment, Mechanical         *)
(* Looseness, Electrical Issues) is 0, and reports a fault other than      *)
(* Normal only if that fault's own score is positive.                      *)
C19_NormalWhenNoRuleFires ==
    /\ DiagnoseDone =>
           NamesFaultThatFired(request.harmonics, request.fixed_freq_peaks, response)
    /\ DirectResult =>
           NamesFaultThatFired(response.result.harmonics,
                               response.result.fixedFrequencyPeaks,
                               response.result.diagnosis)

--------------------------------------------------------------------------
\* find_peak_in_band called on its own has returned.
FindPeakDone == handler = "find_peak_in_band" /\ pc = "done"

(* C13: find_peak_in_band returns none for every centre frequency that     *)
(* exceeds the spectrum's maximum frequency, for every spectrum.           *)
C13_NoneAboveMaxFrequency ==
    (FindPeakDone
     /\ request.spectrum # <<>>
     /\ request.center60 > 60 * request.spectrum[Len(request.spectrum)].frequency) =>
        response = None

\* |f - center| <= 5% of center, with f in Hz and center60 in 1/60 Hz.
WithinTolerance(f, center60) ==
    LET distance60 == IF f * 60 >= center60 THEN f * 60 - center60 ELSE center60 - f * 60
    IN  distance60 * 100 <= 5 * center60

(* C14: for every spectrum and every centre > 0, find_peak_in_band returns *)
(* a point of the spectrum whose frequency lies in [0.95 centre, 1.05      *)
(* centre] and whose amplitude is >= that of every other point in the     *)
(* band, the lowest-frequency one when several share the maximum; it       *)
(* returns none exactly when no point lies in the band, and for every      *)
(* centre <= 0.                                                            *)
C14_PeakIsBandMaximum ==
    FindPeakDone =>
        LET spectrum == request.spectrum
            band     == {i \in DOMAIN spectrum :
                             WithinTolerance(spectrum[i].frequency, request.center60)}
        IN  IF request.center60 <= 0 \/ band = {}
                THEN response = None
                ELSE /\ response # None
                     /\ \E i \in band :
                            /\ response.frequency = spectrum[i].frequency
                            /\ response.amplitude = spectrum[i].amplitude
                            /\ \A j \in band :
                                   /\ spectrum[j].amplitude <= spectrum[i].amplitude
                                   /\ spectrum[j].amplitude = spectrum[i].amplitude =>
                                          spectrum[i].frequency <= spectrum[j].frequency

\* Centre 100 Hz: the points at 100 and 105 Hz share the band's maximum,
\* the point at 95 Hz is lower, the point at 110 Hz outside the band is
\* higher: the point at 100 Hz is returned.
C14_Witness ==
    /\ FindPeakDone
    /\ request.center60 = 6000
    /\ request.spectrum =
           << [frequency |-> 95, amplitude |-> 0], [frequency |-> 100, amplitude |-> 1],
              [frequency |-> 105, amplitude |-> 1], [frequency |-> 110, amplitude |-> 2] >>
    /\ response.frequency = 100
    /\ response.amplitude = 1

--------------------------------------------------------------------------
(* perform_enhanced_diagnosis.                                             *)

EnhancedDone == handler = "perform_enhanced_diagnosis" /\ pc = "done"

\* The call has an RPM above 0 and at least one harmonic.
EnhancedDataPresent ==
    /\ request.rpm # None
    /\ Val(request.rpm) > 0
    /\ request.harmonics # <<>>

\* The running frequency the call works with.
RequestRunningFreq ==
    IF request.running_freq = None \/ Val(request.running_freq) <= 0
        THEN Val(request.rpm) \div 60 ELSE Val(request.running_freq)

\* The scores of the six faults for the call in progress.
RequestScores ==
    EnhancedScores(EnhancedRules(request.harmonics, RequestRunningFreq,
                                 request.severity_zone, request.velocity_rms))

\* The faults other than High Vibration.
SpecificEnhancedFaults ==
    {"Unbalance", "Misalignment", "Coupling Defects", "Bearing Looseness", "Bearing Fitment"}

ZoneCOrD == request.severity_zone \in {Some("C"), Some("D")}

\* C15: when no specific fault reaches score 4 and the severity zone is C
\* or D, perform_enhanced_diagnosis reports 'High Vibration' with Medium
\* confidence (never 'Normal', never Low confidence).
C15_HighVibrationIsMedium ==
    (/\ EnhancedDone
     /\ EnhancedDataPresent
     /\ ZoneCOrD
     /\ \A f \in SpecificEnhancedFaults : RequestScores[f] < 4)
        => (/\ response.fault = "High Vibration"
            /\ response.confidence = "Medium")

\* The faults of the call in progress whose score makes them eligible.
Eligible == {f \in Range(EnhancedFaultOrder) : RequestScores[f] >= 4}

\* The position of a fault in the catalogue order.
CatalogueOrder ==
    <<"Unbalance", "Misalignment", "Coupling Defects", "Bearing Looseness",
      "Bearing Fitment", "High Vibration">>

CataloguePosition(f) == CHOOSE i \in DOMAIN CatalogueOrder : CatalogueOrder[i] = f

\* C16: a fault is eligible only if its score is >= 4; when at least one
\* fault is eligible the reported fault is eligible and has the maximum
\* score among the eligible ones, and among the faults with that maximum
\* score it is the first in the catalogue order (Unbalance, Misalignment,
\* Coupling Defects, Bearing Looseness, Bearing Fitment, High Vibration).
C16_BestEligibleFirstInCatalogue ==
    (EnhancedDone /\ EnhancedDataPresent /\ Eligible # {})
        => (/\ response.fault \in Eligible
            /\ \A f \in Range(EnhancedFaultOrder) :
                   response.allFaults[f].detected <=> response.allFaults[f].score >= 4
            /\ \A f \in Eligible :
                   \/ RequestScores[f] < RequestScores[response.fault]
                   \/ (/\ RequestScores[f] = RequestScores[response.fault]
                       /\ CataloguePosition(response.fault) <= CataloguePosition(f)))

\* Two eligible faults share the highest score, and the earlier of them
\* is reported.
C16_Witness ==
    /\ EnhancedDone
    /\ EnhancedDataPresent
    /\ \E f \in Eligible :
           /\ f # response.fault
           /\ RequestScores[f] = RequestScores[response.fault]
           /\ CataloguePosition(response.fault) < CataloguePosition(f)
           /\ \A g \in Eligible : RequestScores[g] <= RequestScores[f]

\* The call reported a fault chosen by its score.
ReportedByScore == EnhancedDone /\ "allFaults" \in DOMAIN response

\* The score of the reported fault.
ReportedScore == response.allFaults[response.fault].score

\* C17: the confidence reported for a fault with best score s is High if
\* s >= 6, Medium if 4 <= s < 6 and Low if s < 4, except that Medium
\* becomes High when the severity zone is C or D; Low is never promoted.
C17_ConfidenceFollowsScore ==
    ReportedByScore
        => response.confidence =
               (IF ReportedScore >= 6 THEN "High"
                ELSE IF ReportedScore >= 4
                         THEN (IF ZoneCOrD THEN "High" ELSE "Medium")
                ELSE "Low")

\* A fault reported with a score below 4 in zone C or D keeps Low.
C17_Witness ==
    /\ ReportedByScore
    /\ ZoneCOrD
    /\ ReportedScore < 4
    /\ response.confidence = "Low"
\* The evidence texts that name the RPM, and those that name the FFT peak
\* data, as missing.
NamesRpm == {"Required data missing: RPM", "Required data missing: RPM, FFT peak data"}

NamesPeakData ==
    {"Required data missing: FFT peak data", "Required data missing: RPM, FFT peak data"}

RpmMissing == request.rpm = None \/ Val(request.rpm) <= 0

\* C18: called with rpm missing or <= 0, or with an empty harmonic list,
\* perform_enhanced_diagnosis returns fault 'Diagnosis unavailable' with
\* confidence Low and an evidence entry naming the missing data, and
\* computes no fault score.
C18_MissingDataUnavailable ==
    (EnhancedDone /\ (RpmMissing \/ request.harmonics = <<>>))
        => (/\ response.fault = "Diagnosis unavailable"
            /\ response.confidence = "Low"
            /\ "allFaults" \notin DOMAIN response
            /\ RpmMissing => \E i \in DOMAIN response.evidence :
                                 response.evidence[i] \in NamesRpm
            /\ request.harmonics = <<>> => \E i \in DOMAIN response.evidence :
                                               response.evidence[i] \in NamesPeakData)

\* A call with an RPM of 0 or less and a non-empty harmonic list has been
\* answered.
C18_Witness ==
    /\ EnhancedDone
    /\ request.rpm # None
    /\ Val(request.rpm) <= 0
    /\ request.harmonics # <<>>
    /\ response.fault = "Diagnosis unavailable"

--------------------------------------------------------------------------
(* sanitize_dict.                                                          *)

SanitizeDone == handler = "sanitize_dict" /\ pc = "done"

\* The floats of a value that are reached through dicts and lists only.
RECURSIVE NestedFloats(_)
NestedFloats(obj) ==
    IF obj.cls \in {"dict", "list"}
        THEN UNION {NestedFloats(obj.items[i].val) : i \in DOMAIN obj.items}
    ELSE IF obj.cls = "float" THEN {obj}
    ELSE {}

\* The floats of a value at any depth, whatever holds them.
RECURSIVE AllFloats(_)
AllFloats(obj) ==
    IF obj.cls = "float" THEN {obj}
    ELSE UNION {AllFloats(obj.items[i].val) : i \in DOMAIN obj.items}

\* after is before with NaN replaced by 0.0, +Infinity by 99999.0 and
\* -Infinity by -99999.0 in every nested dict and list, and nothing else
\* changed.
RECURSIVE Cleaned(_, _)
Cleaned(before, after) ==
    IF before.cls \in {"dict", "list"}
        THEN /\ after.cls = before.cls
             /\ DOMAIN after.items = DOMAIN before.items
             /\ \A i \in DOMAIN before.items :
                    /\ after.items[i].k = before.items[i].k
                    /\ Cleaned(before.items[i].val, after.items[i].val)
    ELSE IF before = JNan    THEN after = JFloat(0)
    ELSE IF before = JInf    THEN after = JFloat(99999)
    ELSE IF before = JNegInf THEN after = JFloat(0 - 99999)
    ELSE after = before

\* C20: sanitize_dict maps NaN to 0.0, +Infinity to 99999.0 and -Infinity
\* to -99999.0 in every nested dict and list and leaves every other value
\* unchanged, applying it twice gives the same as applying it once, and
\* every float at any depth of the result of perform_complete_analysis is
\* finite.
C20_SanitizedFloatsFinite ==
    SanitizeDone
        => (/\ Cleaned(request, response)
            /\ \A f \in NestedFloats(response) : f.special = ""
            /\ sanitize_dict(response) = response
            /\ request \in AnalysisResults
                   => \A f \in AllFloats(response) : f.special = "")

\* The dict of an analysis holding a NaN, a +Infinity and a -Infinity has
\* been sanitized.
C20_Witness ==
    /\ SanitizeDone
    /\ request \in AnalysisResults
    /\ {JNan, JInf, JNegInf} \subseteq AllFloats(request)
    /\ response # request

--------------------------------------------------------------------------
(* perform_enhanced_diagnosis: the rules of the scores.                    *)

\* The amplitude the call reads at a doubled multiplier.
RequestAmp(multiplier2) ==
    get_amplitude_at_multiple(request.harmonics, multiplier2, RequestRunningFreq)

\* The largest amplitude of the harmonics of the call.
RequestMaxAmp ==
    CHOOSE a \in {request.harmonics[i].amplitude : i \in DOMAIN request.harmonics} :
        \A i \in DOMAIN request.harmonics : request.harmonics[i].amplitude <= a

\* points if the rule fired, else 0.
Points(points, fired) == IF fired THEN points ELSE 0

\* C21: for every harmonic amplitude pattern, including those with no 1x
\* peak, Misalignment gets +3 exactly when amp(2x) > 0.30 amp(1x) and +2
\* exactly when amp(3x) > 0.15 amp(1x), and Coupling Defects gets +3
\* exactly when amp(3x) > 0.50 amp(1x) and +3 exactly when
\* amp(4x) > 0.40 amp(1x) (and +2 with 4 or more significant harmonics).
C21_RatioRulesWithoutGuard ==
    ReportedByScore
        => (/\ response.allFaults["Misalignment"].score =
                   Points(3, RequestAmp(4) * 10 > RequestAmp(2) * 3)
                   + Points(2, RequestAmp(6) * 100 > RequestAmp(2) * 15)
            /\ response.allFaults["Coupling Defects"].score =
                   Points(3, RequestAmp(6) * 2 > RequestAmp(2))
                   + Points(3, RequestAmp(8) * 10 > RequestAmp(2) * 4)
                   + Points(2, response.harmonicCount >= 4))

\* C22: for every non-negative harmonic amplitude pattern, Unbalance scores
\* 3 [amp(1x) >= 0.7 max] + 2 [amp(2x) < 0.35 amp(1x) and
\* amp(3x) < 0.25 amp(1x)], Bearing Fitment scores
\* 4 [amp(2x) > 0.90 amp(1x)] + 2 [amp(2x) >= 0.9 max], and High Vibration
\* scores 3 [zone in {C, D} or velocity RMS > 2.8], max being the largest
\* harmonic amplitude; every score is a non-negative integer.
C22_ScoresFollowRules ==
    ReportedByScore
        => (/\ response.allFaults["Unbalance"].score =
                   Points(3, RequestAmp(2) * 10 >= RequestMaxAmp * 7)
                   + Points(2, /\ RequestAmp(4) * 100 < RequestAmp(2) * 35
                               /\ RequestAmp(6) * 100 < RequestAmp(2) * 25)
            /\ response.allFaults["Bearing Fitment"].score =
                   Points(4, RequestAmp(4) * 10 > RequestAmp(2) * 9)
                   + Points(2, RequestAmp(4) * 10 >= RequestMaxAmp * 9)
            /\ response.allFaults["High Vibration"].score =
                   Points(3, \/ ZoneCOrD
                             \/ (/\ request.velocity_rms # None
                                 /\ Val(request.velocity_rms) > 280))
            /\ \A f \in DOMAIN response.allFaults : response.allFaults[f].score \in Nat)

\* A 1x peak at exactly 0.7 of the largest amplitude scored Unbalance 3,
\* the 2x peak above it scored Bearing Fitment 6, and a velocity RMS of
\* exactly 2.8 mm/s outside zones C and D scored High Vibration 0.
C22_Witness ==
    /\ ReportedByScore
    /\ RequestAmp(2) > 0
    /\ RequestAmp(2) * 10 = RequestMaxAmp * 7
    /\ response.allFaults["Unbalance"].score = 3
    /\ response.allFaults["Bearing Fitment"].score = 6
    /\ request.velocity_rms = Some(280)
    /\ response.allFaults["High Vibration"].score = 0

--------------------------------------------------------------------------
(* detect_harmonics followed by perform_enhanced_diagnosis.                *)

PipelineDone == handler = "harmonic_pipeline" /\ pc = "done"

\* The harmonics detect_harmonics flagged significant.
FlaggedSignificant == {i \in DOMAIN response.harmonics : response.harmonics[i].isSignificant}

\* C23: the number of significant harmonics perform_enhanced_diagnosis
\* uses for its '>= 4 significant harmonics' rules equals the number of
\* harmonics detect_harmonics flagged significant, for every harmonic list
\* detect_harmonics produces.
C23_SignificantCountsAgree ==
    (PipelineDone /\ response.harmonics # <<>>)
        => EnhancedHarmonicCount(PeaksOf(response.harmonics)) = Cardinality(FlaggedSignificant)

\* The orders reported, in the order of the list.
ReportedOrders == [i \in DOMAIN response.harmonics |-> response.harmonics[i].harmonic]

\* The last frequency of the spectrum of the call, in Hz.
LastFrequency == request.spectrum[Len(request.spectrum)].frequency

\* The reference of the significance flags: the amplitude of the 1x peak,
\* or 0.1 mm/s when no harmonic of order 1 is reported.
StatedReference ==
    IF \E i \in DOMAIN response.harmonics : response.harmonics[i].harmonic = 1
        THEN response.harmonics[CHOOSE i \in DOMAIN response.harmonics :
                                    response.harmonics[i].harmonic = 1].amplitude
        ELSE 10

\* C24: detect_harmonics returns at most 10 harmonics with strictly
\* increasing orders in 1..10; no order whose target n x runningFreq
\* exceeds the spectrum's maximum frequency, and none after the first such
\* order, is reported; each detected frequency lies within 5% of its
\* target; a harmonic is flagged significant exactly when its amplitude is
\* >= 0.1 x reference, the reference being the 1x peak amplitude, or 0.1
\* without a 1x peak, and the reference is never zero.
C24_HarmonicsWellFormed ==
    PipelineDone
        => (/\ Len(response.harmonics) <= 10
            /\ \A i \in DOMAIN response.harmonics : ReportedOrders[i] \in 1..10
            /\ \A i, j \in DOMAIN response.harmonics :
                   i < j => ReportedOrders[i] < ReportedOrders[j]
            /\ \A i \in DOMAIN response.harmonics :
                   \A n \in 1..ReportedOrders[i] : n * request.rpm <= LastFrequency * 60
            /\ \A i \in DOMAIN response.harmonics :
                   LET h == response.harmonics[i]
                   IN  /\ h.detectedFrequency * 60 * 100 >= h.harmonic * request.rpm * 95
                       /\ h.detectedFrequency * 60 * 100 <= h.harmonic * request.rpm * 105
                       /\ h.isSignificant <=> h.amplitude * 10 >= StatedReference
            /\ StatedReference # 0)

--------------------------------------------------------------------------
(* perform_complete_analysis: the velocity value classified.               *)

\* The broadband value of the spectrum amplitudes in 10-1000 Hz.
Broadband(spectrum) == SqrtUp(SumSquares(spectrum, 1, Len(spectrum), FALSE))

ClassifyDone == handler = "classify_velocity" /\ pc = "done"

\* The amplitude of the 1x peak of the analysis, 0 without one.
PeakAmplitude == IF response.peakAt1x # None THEN response.peakAt1x.amplitude ELSE 0

\* C25: the velocity value perform_complete_analysis classifies is the
\* larger of the broadband value of the spectrum amplitudes in 10-1000 Hz
\* and the amplitude of the 1x peak (0 without a 1x peak); it is never
\* below the 1x peak amplitude, and the zone is never lower than the zone
\* of the 1x peak amplitude alone.
C25_ClassifiedIsLargerOfTwo ==
    ClassifyDone
        => (/\ response.severity.velocityRMS
                   = Max2(Broadband(request.spectrum), PeakAmplitude)
            /\ response.severity.velocityRMS >= PeakAmplitude
            /\ SeverityIndex(response.severity.zone)
                   >= SeverityIndex(get_iso_severity_zone(PeakAmplitude,
                                                          request.machine_class).zone))

--------------------------------------------------------------------------
(* velocity_convert: the blocks averaged.                                  *)

BlocksDone == handler = "velocity_blocks" /\ pc = "done"

\* Block k of the result (k counted from 1) lies inside the data.
BlockFits(k) ==
    /\ response.starts[k] >= 0
    /\ response.starts[k] + response.blockSize <= request.n

--------------------------------------------------------------------------
(* perform_complete_analysis: the spectrum for the frontend.               *)

OutputDone == handler = "output_spectrum" /\ pc = "done"

\* C27: the fftSpectrum list returned by perform_complete_analysis never
\* has more than 2000 points, for every number of spectrum bins below fmax.
C27_SpectrumAtMostMaxPoints ==
    OutputDone => response.points <= 2000

--------------------------------------------------------------------------
(* detect_harmonics and the lookups of perform_enhanced_diagnosis.         *)

\* The harmonics reported with order n.
OfOrder(n) == {i \in DOMAIN response.harmonics : response.harmonics[i].harmonic = n}

\* The lookup at multiple n returned harmonic i.
LooksUp(n, i) ==
    /\ response.lookups[n] # None
    /\ response.lookups[n] = PeaksOf(response.harmonics)[i]

\* C28: every harmonic of order n in 1..4 that detect_harmonics reports is
\* the harmonic perform_enhanced_diagnosis reads as amp(n x): the lookup at
\* multiple n never misses a harmonic found at order n and never returns a
\* harmonic of another order.
C28_LookupFindsReportedHarmonic ==
    PipelineDone
        => \A n \in 1..4 :
               /\ \A i \in OfOrder(n) : LooksUp(n, i)
               /\ response.lookups[n] # None => \E i \in OfOrder(n) : LooksUp(n, i)

\* The diagnosis of the pipeline for a call awards the 0.5x subharmonic
\* points and reports Bearing Looseness.
ReportsLooseness(call) ==
    LET result == harmonic_pipeline(call.spectrum, call.rpm)
    IN  /\ get_amplitude_at_multiple(PeaksOf(result.harmonics), 1, call.rpm \div 60) > 0
        /\ result.diagnosis.fault = "Bearing Looseness"

\* C29: Bearing Looseness is reachable as an outcome of the composed
\* pipeline: there is a harmonic list produced by detect_harmonics for
\* which perform_enhanced_diagnosis awards the 0.5x subharmonic points and
\* reports 'Bearing Looseness'.
C29_LoosenessReachable ==
    \E call \in PipelineCalls : ReportsLooseness(call)

--------------------------------------------------------------------------
(* perform_enhanced_diagnosis: Unbalance and Misalignment.                 *)

\* C30: the scores of Unbalance and of Misalignment never exceed 5, so
\* either fault is reported with High confidence only when the severity
\* zone is C or D; with zone A or B, or without a zone, a reported
\* Unbalance or Misalignment always has Medium confidence.
C30_UnbalanceMisalignmentAtMostFive ==
    ReportedByScore
        => (/\ response.allFaults["Unbalance"].score <= 5
            /\ response.allFaults["Misalignment"].score <= 5
            /\ response.fault \in {"Unbalance", "Misalignment"}
                   => (/\ response.confidence = "High" => ZoneCOrD
                       /\ ~ ZoneCOrD => response.confidence = "Medium"))

\* Unbalance reported with its highest score, 5, outside zones C and D,
\* with Medium confidence.
C30_Witness ==
    /\ ReportedByScore
    /\ response.fault = "Unbalance"
    /\ response.allFaults["Unbalance"].score = 5
    /\ ~ ZoneCOrD
    /\ response.confidence = "Medium"
==========================================================================
